---- MODULE Spec2Model ----
(***************************************************************************)
(* Monte Carlo forecast pipeline (src/Monte Carlo/mc_pipeline.py).         *)
(*                                                                         *)
(* Real numbers are fixed-point integers in units of 1e-8 (SCALE), the     *)
(* smallest diagonal inflation build_correlation uses.  Every arithmetic   *)
(* operator rounds toward zero, as a floating-point operation rounds to a  *)
(* nearby representable value.                                             *)
(***************************************************************************)
EXTENDS Integers, Sequences, FiniteSets, TLC

\* ------------------------------------------------------------------------
\* Fixed-point arithmetic
\* ------------------------------------------------------------------------

\* 1.0 in fixed point
SCALE == 10 ^ 8

\* square root of SCALE: the limb size of the split multiplication
LIMB == 10 ^ 4

\* magnitude at which a quotient saturates (3.0); a float quotient does not
\* saturate, and every use below is insensitive to values beyond 3.0
QUOT_CAP == 3 * SCALE

Abs(x) == IF x < 0 THEN -x ELSE x

Sign(x) == IF x < 0 THEN -1 ELSE 1

Min(a, b) == IF a <= b THEN a ELSE b

Max(a, b) == IF a >= b THEN a ELSE b

\* floor(a * b / SCALE) for a, b >= 0, computed limb by limb
MulNat(a, b) ==
    LET a1 == a \div LIMB
        a0 == a % LIMB
        b1 == b \div LIMB
        b0 == b % LIMB
    IN  a1 * b1 + ((a1 * b0 + a0 * b1 + ((a0 * b0) \div LIMB)) \div LIMB)

\* a * b
Mul(a, b) == Sign(a) * Sign(b) * MulNat(Abs(a), Abs(b))

\* floor(r * SCALE / d) for 0 <= r < d by long division, SCALE = 5^8 * 4^4
RECURSIVE FracDigits(_, _, _, _)
FracDigits(r, d, q, n) ==
    LET radix == IF n > 4 THEN 5 ELSE 4
    IN  IF n = 0 THEN q
        ELSE FracDigits((r * radix) % d, d, q * radix + ((r * radix) \div d), n - 1)

\* floor(x * SCALE / d) for x >= 0, d > 0, saturating at QUOT_CAP
DivNat(x, d) ==
    IF x \div d >= 3 THEN QUOT_CAP
    ELSE (x \div d) * SCALE + FracDigits(x % d, d, 0, 12)

\* x / d
Div(x, d) == Sign(x) * Sign(d) * DivNat(Abs(x), Abs(d))

\* r * r <= v * SCALE, exactly
SquareLeq(r, v) ==
    LET r1 == r \div LIMB
        r0 == r % LIMB
        mid == 2 * r1 * r0 + ((r0 * r0) \div LIMB)
        q == r1 * r1 + (mid \div LIMB)
        rem == (mid % LIMB) * LIMB + ((r0 * r0) % LIMB)
    IN  q < v \/ (q = v /\ rem = 0)

\* the largest r in lo..hi with r * r <= v * SCALE (lo satisfies it)
RECURSIVE SqrtSearch(_, _, _)
SqrtSearch(v, lo, hi) ==
    IF lo >= hi THEN lo
    ELSE LET mid == (lo + hi + 1) \div 2
         IN  IF SquareLeq(mid, v) THEN SqrtSearch(v, mid, hi)
                                  ELSE SqrtSearch(v, lo, mid - 1)

\* math.sqrt(v) for 0 <= v <= 4.0
Sqrt(v) == SqrtSearch(v, 0, 2 * SCALE)

\* ------------------------------------------------------------------------
\* Values and state
\* ------------------------------------------------------------------------

\* Python's None and a present value, as a sequence of length 0 or 1
None == <<>>

Some(x) == <<x>>

VARIABLES
    cfg,            \* the configuration loaded by main (read-only for the run)
    workbook,       \* the input workbook: one sheet per client
    pc,             \* main's position
    err,            \* the exception that aborted main, "" while none
    rng,            \* state of the shared random generator
    clients,        \* result of read_input_clients
    corr,           \* build_correlation: the correlation matrix
    attempt,        \* build_correlation: index of the epsilon being tried
    corr_eps,       \* build_correlation: the matrix handed to cholesky
    L,              \* build_correlation: the factor, None while missing
    tried,          \* history: the epsilons handed to cholesky, in order
    scenario,       \* "decline" or "improvement"
    ci,             \* index of the client being simulated
    k,              \* simulate_client: completed draws
    sums5,          \* simulate_client: accumulator of the 5-year horizon
    sums10,         \* simulate_client: accumulator of the 10-year horizon
    mean5,          \* simulate_client: returned 5-year means
    mean10,         \* simulate_client: returned 10-year means
    trace,          \* history: per-test steps performed by simulate_client
    sheets,         \* main: sheets_decline / sheets_improve being collected
    files,          \* the output workbooks written so far, by scenario
    run,            \* which execution of main this is (1 or 2)
    firstFiles,     \* what the first execution left: its workbooks and error
    printed,        \* the sanity messages main has printed, in order
    draw,           \* simulate_client: the locals of the latest draw
    probe           \* inputs and result of a projector function applied on its own

corrVars == <<corr, attempt, corr_eps, L, tried>>

simVars == <<scenario, ci, k, sums5, sums10, mean5, mean10, trace>>

vars ==
    <<cfg, workbook, pc, err, rng, clients, corrVars, simVars, sheets, files, run, firstFiles,
      printed, draw, probe>>

\* ------------------------------------------------------------------------
\* Correlation engine
\* ------------------------------------------------------------------------

\* DotPrefix with row i used for both factors
RECURSIVE DotPrefix_WrongRow(_, _, _, _)
DotPrefix_WrongRow(Lm, i, j, kk) ==
    IF kk = 0 THEN 0
    ELSE DotPrefix_WrongRow(Lm, i, j, kk - 1) + Mul(Lm[i][kk], Lm[i][kk])

\* sum of L[i][k] * L[j][k] for k below j (cholesky's inner loop)
RECURSIVE DotPrefix(_, _, _, _)
DotPrefix(Lm, i, j, kk) ==
    IF kk = 0 THEN 0
    ELSE DotPrefix(Lm, i, j, kk - 1) + Mul(Lm[i][kk], Lm[j][kk])

\* cholesky's loops from entry (i, j) on; None when a pivot is <= 0
RECURSIVE CholeskyFrom(_, _, _, _)
CholeskyFrom(matrix, Lm, i, j) ==
    LET n == Len(matrix)
        s == DotPrefix(Lm, i, j, j - 1)
    IN  IF i > n THEN Some(Lm)
        ELSE IF i = j
        THEN LET val == matrix[i][i] - s
             IN  IF val <= 0 THEN None
                 ELSE CholeskyFrom(matrix, [Lm EXCEPT ![i][j] = Sqrt(val)], i + 1, 1)
        ELSE CholeskyFrom(matrix,
                          [Lm EXCEPT ![i][j] = Div(matrix[i][j] - s, Lm[j][j])],
                          i, j + 1)

ZeroMatrix(n) == [i \in 1..n |-> [j \in 1..n |-> 0]]

\* cholesky(matrix): Some(L), or None for 'Matrix not positive definite'
cholesky(matrix) == CholeskyFrom(matrix, ZeroMatrix(Len(matrix)), 1, 1)

\* idx = {t: i for i, t in enumerate(tests)}: the last position of t, 0 if absent
IndexOf(tests, t) ==
    LET hits == {i \in 1..Len(tests) : tests[i] = t}
    IN  IF hits = {} THEN 0 ELSE CHOOSE i \in hits : \A h \in hits : h <= i

\* SetPairs without the mirrored assignment corr[j][i] = val
RECURSIVE SetPairs_NoMirror(_, _, _, _)
SetPairs_NoMirror(m, tests, pairs, p) ==
    IF p > Len(pairs) THEN m
    ELSE SetPairs_NoMirror([m EXCEPT ![IndexOf(tests, pairs[p][1])][IndexOf(tests, pairs[p][2])]
                                        = pairs[p][3]],
                           tests, pairs, p + 1)

\* the loop over pairs, from pair p on
RECURSIVE SetPairs(_, _, _, _)
SetPairs(m, tests, pairs, p) ==
    IF p > Len(pairs) THEN m
    ELSE LET i == IndexOf(tests, pairs[p][1])
             j == IndexOf(tests, pairs[p][2])
             v == pairs[p][3]
             m1 == [m EXCEPT ![i][j] = v]
         IN  SetPairs([m1 EXCEPT ![j][i] = v], tests, pairs, p + 1)

\* the matrix build_correlation assembles before factorizing
CorrMatrix(tests, pairs) ==
    LET n == Len(tests)
        unit == [i \in 1..n |-> [j \in 1..n |-> IF i = j THEN SCALE ELSE 0]]
    IN  SetPairs(unit, tests, pairs, 1)

\* the epsilons build_correlation tries, in order
EPS_LIST == <<0, 1, 100, 1000, 10000, 100000, 1000000>>

\* Inflate with eps added to every entry
Inflate_AllEntries(m, eps) ==
    IF eps > 0
    THEN [i \in 1..Len(m) |-> [j \in 1..Len(m) |-> m[i][j] + eps]]
    ELSE m

\* corr_eps of one attempt
Inflate(m, eps) ==
    IF eps > 0
    THEN [i \in 1..Len(m) |-> [j \in 1..Len(m) |-> m[i][j] + (IF i = j THEN eps ELSE 0)]]
    ELSE m

\* ------------------------------------------------------------------------
\* Elementary functions
\* ------------------------------------------------------------------------

\* x / n for a plain integer n, rounded toward zero
Quot(x, n) == Sign(x) * (Abs(x) \div n)

\* exp(x) for |x| <= 1/2: the Taylor polynomial of degree 6, in Horner form
ExpSmall(x) ==
    SCALE + Mul(x, SCALE + Mul(x, (SCALE \div 2) + Mul(x, (SCALE \div 6)
          + Mul(x, (SCALE \div 24) + Mul(x, (SCALE \div 120) + Mul(x, SCALE \div 720))))))

Square(x) == Mul(x, x)

\* math.exp(x) for x <= 1.3: exp(x / 16) squared four times
Exp(x) == Square(Square(Square(Square(ExpSmall(Quot(x, 16))))))

\* 2 * atanh(u) for |u| <= 1/5: the odd Taylor polynomial of degree 9
TwoAtanh(u) ==
    LET u2 == Mul(u, u)
    IN  2 * Mul(u, SCALE + Mul(u2, (SCALE \div 3) + Mul(u2, (SCALE \div 5)
              + Mul(u2, (SCALE \div 7) + Mul(u2, SCALE \div 9)))))

\* log(x) = acc + log(m) once x is scaled by powers of 2 to m in [0.75, 1.5),
\* where log(m) = 2 * atanh((m - 1) / (m + 1)) and log(2) = 0.69314718
RECURSIVE LogReduce(_, _)
LogReduce(x, acc) ==
    IF 4 * x < 3 * SCALE THEN LogReduce(2 * x, acc - 69314718)
    ELSE IF 2 * x >= 3 * SCALE THEN LogReduce(x \div 2, acc + 69314718)
    ELSE acc + TwoAtanh(Div(x - SCALE, x + SCALE))

\* math.log(x) for 0 < x < 5.0
Log(x) == LogReduce(x, 0)

\* factor ** (years / 10.0) for 0 <= factor <= 2.0 and whole years, as
\* exp(years * log(factor) / 10); x ** 1.0 is exactly x and 0.0 ** y exactly
\* 0.0, as in IEEE arithmetic
PowTenths(factor, years) ==
    IF years = 10 \/ factor = 0 THEN factor
    ELSE Exp(Quot(Log(factor), 10) * years)

\* lognormal_sigma_from_cv
lognormal_sigma_from_cv(cv) == Sqrt(Log(SCALE + Mul(cv, cv)))

\* ------------------------------------------------------------------------
\* The shared random generator
\* ------------------------------------------------------------------------

\* number of generator states
RNG_MOD == 16

\* the generator's transition: one value consumed
RngNext(r) == (5 * r + 3) % RNG_MOD

\* the standard-normal variates random.gauss(0.0, 1.0) can return
ZTable == <<-15 * (SCALE \div 10), -5 * (SCALE \div 10), 0, 5 * (SCALE \div 10), 15 * (SCALE \div 10)>>

\* the values random.random() can return, in [0, 1)
UTable == <<0, SCALE \div 4, SCALE \div 2, 3 * (SCALE \div 4)>>

\* random.gauss(0.0, 1.0) drawn in generator state r
Gauss(r) == ZTable[(r % Len(ZTable)) + 1]

\* random.uniform(low, high) drawn in generator state r
Uniform(r, low, high) == low + Mul(high - low, UTable[(r % Len(UTable)) + 1])

\* random.seed(seed)
SeedState(seed) == seed % RNG_MOD

\* dict.get(key): Some(value) or None
Get(f, key) == IF key \in DOMAIN f THEN Some(f[key]) ELSE None

\* the keys of cfg that are present
Has(c, key) == key \notin c.missing

\* ------------------------------------------------------------------------
\* Shock sampler
\* ------------------------------------------------------------------------

\* z = [random.gauss(0.0, 1.0) for _ in range(n)], from draw i on
RECURSIVE GaussList(_, _, _)
GaussList(r, n, acc) ==
    IF Len(acc) = n THEN [z |-> acc, rng |-> r]
    ELSE GaussList(RngNext(r), n, Append(acc, Gauss(r)))

\* sum of Li[kk] * z[kk] for kk up to i
RECURSIVE MixRow(_, _, _)
MixRow(Li, z, kk) == IF kk = 0 THEN 0 ELSE MixRow(Li, z, kk - 1) + Mul(Li[kk], z[kk])

\* sample_correlated_z(L)
sample_correlated_z(Lm, r) ==
    LET g == GaussList(r, Len(Lm), <<>>)
    IN  [x |-> [i \in 1..Len(Lm) |-> MixRow(Lm[i], g.z, i)], rng |-> g.rng]

\* z_map = {corr_tests[i]: z_corr[i] ...}.get(test)
ZMapGet(corr_tests, z_corr, test) ==
    IF IndexOf(corr_tests, test) = 0 THEN None ELSE Some(z_corr[IndexOf(corr_tests, test)])

\* sample_rate without the clamp of the additive-normal rate at 0
sample_rate_NoClamp(mu, cv, is_lognormal, z, r) ==
    LET zz == IF z = None THEN Gauss(r) ELSE z[1]
        r1 == IF z = None THEN RngNext(r) ELSE r
    IN  IF is_lognormal
        THEN IF mu <= 0 THEN [err |-> "ValueError", r |-> 0, z |-> zz, rng |-> r]
             ELSE [err |-> "",
                   r |-> Exp(Log(mu) + Mul(lognormal_sigma_from_cv(cv), zz)),
                   z |-> zz, rng |-> r1]
        ELSE [err |-> "", r |-> mu + Mul(Mul(Abs(mu), cv), zz), z |-> zz, rng |-> r1]

\* sample_rate(test, mu, cv, is_lognormal, z)
sample_rate(mu, cv, is_lognormal, z, r) ==
    LET zz == IF z = None THEN Gauss(r) ELSE z[1]
        r1 == IF z = None THEN RngNext(r) ELSE r
    IN  IF is_lognormal
        THEN IF mu <= 0 THEN [err |-> "ValueError", r |-> 0, z |-> zz, rng |-> r]
             ELSE [err |-> "",
                   r |-> Exp(Log(mu) + Mul(lognormal_sigma_from_cv(cv), zz)),
                   z |-> zz, rng |-> r1]
        ELSE [err |-> "", r |-> Max(0, mu + Mul(Mul(Abs(mu), cv), zz)), z |-> zz, rng |-> r1]

\* ------------------------------------------------------------------------
\* Trajectory projector
\* ------------------------------------------------------------------------

\* apply_segment with the directions of higher_is_better exchanged
apply_segment_Flipped(val, rate, years_segment, higher_is_better, use_absolute) ==
    IF years_segment <= 0 THEN val
    ELSE IF use_absolute
    THEN LET decline_amount == Quot(rate * years_segment, 10)
         IN  IF higher_is_better THEN val + decline_amount ELSE val - decline_amount
    ELSE LET factor == IF higher_is_better
                       THEN (IF val >= 0 THEN SCALE + rate ELSE SCALE - rate)
                       ELSE (IF val >= 0 THEN SCALE - rate ELSE SCALE + rate)
         IN  Mul(val, PowTenths(factor, years_segment))

\* apply_decline.apply_segment
apply_segment(val, rate, years_segment, higher_is_better, use_absolute) ==
    IF years_segment <= 0 THEN val
    ELSE IF use_absolute
    THEN LET decline_amount == Quot(rate * years_segment, 10)
         IN  IF higher_is_better THEN val - decline_amount ELSE val + decline_amount
    ELSE LET factor == IF higher_is_better
                       THEN (IF val >= 0 THEN SCALE - rate ELSE SCALE + rate)
                       ELSE (IF val >= 0 THEN SCALE + rate ELSE SCALE - rate)
         IN  Mul(val, PowTenths(factor, years_segment))

\* years1 of apply_decline when the horizon is never split
DeclineYears1_NoSplit(age_start, years, accel_age) == years

\* years1 of apply_decline
DeclineYears1(age_start, years, accel_age) ==
    IF accel_age = None THEN years
    ELSE IF age_start < accel_age[1] THEN Min(years, accel_age[1] - age_start)
    ELSE 0

\* years2 of apply_decline
DeclineYears2(age_start, years, accel_age) ==
    IF accel_age = None THEN 0
    ELSE years - DeclineYears1(age_start, years, accel_age)

\* apply_decline
apply_decline(value, age_start, years, rate_base, rate_post, accel_age, higher_is_better, use_absolute) ==
    IF years <= 0 THEN value
    ELSE LET years1 == DeclineYears1(age_start, years, accel_age)
             years2 == DeclineYears2(age_start, years, accel_age)
             v1 == IF years1 > 0
                   THEN apply_segment(value, rate_base, years1, higher_is_better, use_absolute)
                   ELSE value
             rate == IF rate_post # None THEN rate_post[1] ELSE rate_base
         IN  IF years2 > 0
             THEN apply_segment(v1, rate, years2, higher_is_better, use_absolute)
             ELSE v1

\* apply_measurement_noise
apply_measurement_noise(test, true_val, measurement_cv, measurement_lognormal, allow_negative_tests, r) ==
    LET cv == measurement_cv[test]
    IN  IF test \in measurement_lognormal
        THEN IF true_val <= 0 THEN [v |-> 0, rng |-> r]
             ELSE [v |-> Mul(true_val, Exp(Mul(lognormal_sigma_from_cv(cv), Gauss(r)))),
                   rng |-> RngNext(r)]
        ELSE LET obs == true_val + Mul(Mul(Abs(true_val), cv), Gauss(r))
             IN  [v |-> IF test \notin allow_negative_tests /\ obs < 0 THEN 0 ELSE obs,
                  rng |-> RngNext(r)]

\* infer_true_from_observed clamping at 0 whether or not the test allows negatives
infer_true_from_observed_AlwaysClamp(test, obs_val, measurement_cv, measurement_lognormal, allow_negative_tests, r) ==
    LET cv == measurement_cv[test]
    IN  IF test \in measurement_lognormal
        THEN IF obs_val <= 0 THEN [v |-> 0, rng |-> r]
             ELSE [v |-> Div(obs_val, Exp(Mul(lognormal_sigma_from_cv(cv), Gauss(r)))),
                   rng |-> RngNext(r)]
        ELSE LET true_val == obs_val - Mul(Mul(Abs(obs_val), cv), Gauss(r))
             IN  [v |-> IF true_val < 0 THEN 0 ELSE true_val, rng |-> RngNext(r)]

\* infer_true_from_observed
infer_true_from_observed(test, obs_val, measurement_cv, measurement_lognormal, allow_negative_tests, r) ==
    LET cv == measurement_cv[test]
    IN  IF test \in measurement_lognormal
        THEN IF obs_val <= 0 THEN [v |-> 0, rng |-> r]
             ELSE [v |-> Div(obs_val, Exp(Mul(lognormal_sigma_from_cv(cv), Gauss(r)))),
                   rng |-> RngNext(r)]
        ELSE LET true_val == obs_val - Mul(Mul(Abs(obs_val), cv), Gauss(r))
             IN  [v |-> IF test \notin allow_negative_tests /\ true_val < 0 THEN 0 ELSE true_val,
                  rng |-> RngNext(r)]

\* z90 of sample_homa_reduction (z10 is its negative)
Z90 == 128155157

\* sample_homa_reduction
sample_homa_reduction(homa_cfg, r) ==
    IF {"q10", "q90", "median"} \cap homa_cfg.missing # {}
    THEN [err |-> "KeyError", v |-> 0, rng |-> r]
    ELSE IF homa_cfg.q90 <= 0 \/ homa_cfg.q10 <= 0 \/ homa_cfg.median <= 0
    THEN [err |-> "ValueError", v |-> 0, rng |-> r]
    ELSE LET sigma == Div(Quot(Log(homa_cfg.q90) - Log(homa_cfg.q10), 2), Z90)
             mu == Log(homa_cfg.median)
             rr == Exp(mu + Mul(sigma, Gauss(r)))
         IN  [err |-> "", v |-> Max(homa_cfg.min, Min(homa_cfg.max, rr)), rng |-> RngNext(r)]

\* sample_improvement_fraction
sample_improvement_fraction(test, age, improve_cfg, r) ==
    IF test = "VO2 max"
    THEN IF {"vo2_age_cutoff", "vo2_under", "vo2_over"} \cap improve_cfg.missing # {}
         THEN [err |-> "KeyError", v |-> 0, rng |-> r]
         ELSE LET range == IF age = None \/ age[1] < improve_cfg.vo2_age_cutoff
                           THEN improve_cfg.vo2_under ELSE improve_cfg.vo2_over
              IN  [err |-> "", v |-> Uniform(r, range[1], range[2]), rng |-> RngNext(r)]
    ELSE IF test = "HOMA-IR"
    THEN IF "homa_ir_reduction" \in improve_cfg.missing
         THEN [err |-> "KeyError", v |-> 0, rng |-> r]
         ELSE sample_homa_reduction(improve_cfg.homa_ir_reduction, r)
    ELSE IF "ranges" \in improve_cfg.missing
    THEN [err |-> "KeyError", v |-> 0, rng |-> r]
    ELSE IF test \notin DOMAIN improve_cfg.ranges
    THEN [err |-> "", v |-> 0, rng |-> r]
    ELSE [err |-> "",
          v |-> Uniform(r, improve_cfg.ranges[test][1], improve_cfg.ranges[test][2]),
          rng |-> RngNext(r)]

\* ------------------------------------------------------------------------
\* simulate_client
\* ------------------------------------------------------------------------

\* absolute_decline = set(cfg.get('absolute_decline_tests', []))
AbsoluteDecline(c) ==
    IF Has(c, "absolute_decline_tests") THEN c.absolute_decline_tests ELSE {}

\* allow_negative = set(cfg.get('allow_negative_tests', cfg['cognitive_tests'] + ['Sit and Reach']))
AllowNegative(c) ==
    IF Has(c, "allow_negative_tests") THEN c.allow_negative_tests
    ELSE c.cognitive_tests \cup {"Sit and Reach"}

\* the keys simulate_client reads with cfg[...] before its first draw
SimKeys ==
    {"tests_order", "higher_is_better", "lower_is_better", "cognitive_tests",
     "decline", "decline.base_rate_per_decade", "decline.post_rate_per_decade",
     "decline.accelerate_from_age", "rate_uncertainty_cv", "rate_lognormal",
     "measurement_cv", "measurement_lognormal", "improvement", "practice_effect", "n_sim"}

\* the tests of tests_order
TestSet(c) == {c.tests_order[i] : i \in 1..Len(c.tests_order)}

\* age or 0
AgeOrZero(age) == IF age = None THEN 0 ELSE age[1]

\* one iteration of 'for test in tests' that samples rate and rate_post
RateStep(c, corr_tests, z_corr, test, st) ==
    IF test \notin DOMAIN c.base_rate_per_decade \/ test \notin DOMAIN c.rate_uncertainty_cv
    THEN [st EXCEPT !.err = "KeyError"]
    ELSE LET mu == c.base_rate_per_decade[test]
             sr == sample_rate(mu, c.rate_uncertainty_cv[test], test \in c.rate_lognormal,
                               ZMapGet(corr_tests, z_corr, test), st.rng)
             post_mu == Get(c.post_rate_per_decade, test)
             rp == IF post_mu = None THEN None
                   ELSE IF mu > 0 THEN Some(Mul(post_mu[1], Div(sr.r, mu)))
                   ELSE post_mu
         IN  IF sr.err # "" THEN [st EXCEPT !.err = sr.err]
             ELSE [st EXCEPT !.rng = sr.rng,
                             !.rate = (test :> sr.r) @@ @,
                             !.rate_post = (test :> rp) @@ @,
                             !.shock = (test :> [z |-> sr.z, before |-> st.rng,
                                                 after |-> sr.rng]) @@ @]

\* one iteration of 'for test in tests' that de-noises the baseline
TrueStep(c, data, test, st) ==
    LET obs == IF test \in DOMAIN data THEN data[test] ELSE Some(0)
    IN  IF test \notin DOMAIN c.measurement_cv THEN [st EXCEPT !.err = "KeyError"]
        ELSE IF obs = None THEN [st EXCEPT !.err = "TypeError"]
        ELSE LET t0 == infer_true_from_observed(test, obs[1], c.measurement_cv,
                                                c.measurement_lognormal, AllowNegative(c), st.rng)
             IN  [st EXCEPT !.rng = t0.rng,
                            !.true0 = (test :> t0.v) @@ @,
                            !.denoise = (test :> [before |-> st.rng, after |-> t0.rng]) @@ @,
                            !.trace = @ \cup {<<test, "denoise">>}]

\* the instantaneous improvement of the improvement scenario
Improve(c, test, val, imp) ==
    IF test \in AbsoluteDecline(c)
    THEN IF test \in c.lower_is_better THEN val - imp ELSE val + imp
    ELSE IF test \in c.lower_is_better
    THEN (IF val >= 0 THEN Mul(val, SCALE - imp) ELSE Mul(val, SCALE + imp))
    ELSE (IF val >= 0 THEN Mul(val, SCALE + imp) ELSE Mul(val, SCALE - imp))

\* the practice-effect bump applied at every horizon
Practice_EveryHorizon(c, test, years, val) ==
    LET pe == c.practice_effect
    IN  IF pe.enabled /\ test \in pe.tests
        THEN IF test \in AbsoluteDecline(c) THEN val + pe.percent
             ELSE IF val >= 0 THEN Mul(val, SCALE + pe.percent)
             ELSE Mul(val, SCALE - pe.percent)
        ELSE val

\* the practice-effect bump
Practice(c, test, years, val) ==
    LET pe == c.practice_effect
    IN  IF pe.enabled /\ years = pe.year /\ test \in pe.tests
        THEN IF test \in AbsoluteDecline(c) THEN val + pe.percent
             ELSE IF val >= 0 THEN Mul(val, SCALE + pe.percent)
             ELSE Mul(val, SCALE - pe.percent)
        ELSE val

\* the start age and the years handed to apply_decline, the whole horizon
\* from the client's age in the improvement scenario too
DeclineArgs_FullHorizon(scen, age, years) == [age_start |-> AgeOrZero(age), years |-> years]

\* the start age and the years handed to apply_decline, lines 398-418
DeclineArgs(scen, age, years) ==
    IF scen = "improvement"
    THEN [age_start |-> AgeOrZero(age) + 1, years |-> years - 1]
    ELSE [age_start |-> AgeOrZero(age), years |-> years]

\* one iteration of 'for test in tests' inside 'for years, sums in ...'
ProjectStep(c, scen, age, years, test, st) ==
    LET imp == IF scen = "improvement"
               THEN sample_improvement_fraction(test, age, c.improvement, st.rng)
               ELSE [err |-> "", v |-> 0, rng |-> st.rng]
        v0 == IF scen = "improvement" THEN Improve(c, test, st.true0[test], imp.v)
              ELSE st.true0[test]
        args == DeclineArgs(scen, age, years)
        v1 == apply_decline(v0, args.age_start, args.years,
                            st.rate[test], st.rate_post[test],
                            Get(c.accelerate_from_age, test),
                            test \in c.higher_is_better,
                            test \in AbsoluteDecline(c))
        v2 == Practice(c, test, years, v1)
        obs == apply_measurement_noise(test, v2, c.measurement_cv, c.measurement_lognormal,
                                       AllowNegative(c), imp.rng)
    IN  IF imp.err # "" THEN [st EXCEPT !.err = imp.err]
        ELSE [st EXCEPT !.rng = obs.rng,
                        !.sums5 = IF years = 5 THEN [@ EXCEPT ![test] = @ + obs.v] ELSE @,
                        !.sums10 = IF years = 10 THEN [@ EXCEPT ![test] = @ + obs.v] ELSE @,
                        !.trace = @ \cup {<<test, "decline">>, <<test, "renoise">>},
                        !.steps = (<<years, test>> :>
                                      [start |-> st.true0[test], imp |-> imp.v, improved |-> v0,
                                       age_start |-> args.age_start, years |-> args.years,
                                       rate |-> st.rate[test], rate_post |-> st.rate_post[test],
                                       declined |-> v1, bumped |-> v2, obs |-> obs.v,
                                       before |-> st.rng, drawn |-> imp.rng,
                                       after |-> obs.rng]) @@ @]

\* the three loops over tests, from position t on; an exception ends the draw
RECURSIVE RateLoop(_, _, _, _, _)
RateLoop(c, corr_tests, z_corr, t, st) ==
    IF t > Len(c.tests_order) \/ st.err # "" THEN st
    ELSE RateLoop(c, corr_tests, z_corr, t + 1,
                  RateStep(c, corr_tests, z_corr, c.tests_order[t], st))

RECURSIVE TrueLoop(_, _, _, _)
TrueLoop(c, data, t, st) ==
    IF t > Len(c.tests_order) \/ st.err # "" THEN st
    ELSE TrueLoop(c, data, t + 1, TrueStep(c, data, c.tests_order[t], st))

RECURSIVE ProjectLoop(_, _, _, _, _, _)
ProjectLoop(c, scen, age, years, t, st) ==
    IF t > Len(c.tests_order) \/ st.err # "" THEN st
    ELSE ProjectLoop(c, scen, age, years, t + 1,
                     ProjectStep(c, scen, age, years, c.tests_order[t], st))

\* one iteration of 'for _ in range(n_sim)' that samples the rates and
\* de-noises the baselines again before the second horizon
OneDraw_ResamplePerHorizon(c, client, corr_tests, corr_L, scen, st) ==
    LET zc == sample_correlated_z(corr_L, st.rng)
        s1 == RateLoop(c, corr_tests, zc.x, 1, [st EXCEPT !.rng = zc.rng, !.z_corr = zc.x])
        s2 == TrueLoop(c, client.data, 1, s1)
        s3 == ProjectLoop(c, scen, client.age, 5, 1, s2)
        s4 == TrueLoop(c, client.data, 1, RateLoop(c, corr_tests, zc.x, 1, s3))
    IN  ProjectLoop(c, scen, client.age, 10, 1, s4)

\* one iteration of 'for _ in range(n_sim)'
OneDraw(c, client, corr_tests, corr_L, scen, st) ==
    LET zc == sample_correlated_z(corr_L, st.rng)
        s1 == RateLoop(c, corr_tests, zc.x, 1, [st EXCEPT !.rng = zc.rng, !.z_corr = zc.x])
        s2 == TrueLoop(c, client.data, 1, s1)
        s3 == ProjectLoop(c, scen, client.age, 5, 1, s2)
    IN  ProjectLoop(c, scen, client.age, 10, 1, s3)

\* ------------------------------------------------------------------------
\* Spreadsheet cells and the reader
\* ------------------------------------------------------------------------

\* a numeric cell, a text cell, and Python's None in a row
Num(x) == [t |-> "n", n |-> x, s |-> ""]

Text(x) == [t |-> "s", n |-> 0, s |-> x]

NoneCell == [t |-> "none", n |-> 0, s |-> ""]

\* to_float: the number a cell's text parses to, None when float() raises
to_float(cell) == IF cell.t = "n" THEN Some(cell.n) ELSE None

\* the recognized prefix that label.strip().lower() starts with, "" if none
LabelPrefix(label) ==
    CASE label = "VO2 max" -> "vo2 max"
      [] label = "VO2 Max (ml/kg/min)" -> "vo2 max"
      [] label = "HOMA-IR" -> "homa-ir"
      [] label = "Homa IR" -> "homa ir"
      [] label = "Processing Speed" -> "processing speed"
      [] label = "Grip Strength (kg)" -> "grip strength"
      [] label = "Sit and Reach" -> "sit and reach"
      [] label = "Fasting Glucose" -> "fasting glucose"
      [] OTHER -> ""

\* the if/elif chain of read_input_clients: canonical test of a prefix
KeyOfPrefix(prefix) ==
    CASE prefix = "vo2 max" -> Some("VO2 max")
      [] prefix = "grip strength" -> Some("Grip Strength")
      [] prefix = "fasting glucose" -> None
      [] prefix = "homa ir" -> Some("HOMA-IR")
      [] prefix = "homa-ir" -> Some("HOMA-IR")
      [] prefix = "sit and reach" -> Some("Sit and Reach")
      [] prefix = "processing speed" -> Some("Processing Speed")
      [] OTHER -> None

\* label_to_value[label] for a label of the sheet: the last row's value
RECURSIVE LastValue(_, _, _)
LastValue(rows, label, i) ==
    IF i = 0 THEN Text("")
    ELSE IF rows[i].label = label THEN rows[i].value
    ELSE LastValue(rows, label, i - 1)

\* label_to_value.get(label, '')
LabelGet(rows, label) == LastValue(rows, label, Len(rows))

\* the loop that fills data, over the labels in insertion order
RECURSIVE ReadData(_, _, _)
ReadData(rows, i, data) ==
    IF i > Len(rows) THEN data
    ELSE LET key == KeyOfPrefix(LabelPrefix(rows[i].label))
         IN  IF key = None \/ rows[i].label = ""
                \/ \E j \in 1..(i - 1) : rows[j].label = rows[i].label
             THEN ReadData(rows, i + 1, data)
             ELSE ReadData(rows, i + 1,
                           (key[1] :> to_float(LabelGet(rows, rows[i].label))) @@ data)

\* the client read_input_clients builds from one sheet
ReadSheet(sheet) ==
    [sheet_name |-> sheet.name,
     name |-> IF LabelGet(sheet.rows, "Name").s # "" THEN LabelGet(sheet.rows, "Name").s
              ELSE sheet.name,
     age |-> to_float(LabelGet(sheet.rows, "Age")),
     data |-> ReadData(sheet.rows, 1, <<>>)]

\* read_input_clients
read_input_clients(wb) == [i \in 1..Len(wb) |-> ReadSheet(wb[i])]

\* ------------------------------------------------------------------------
\* Output rows
\* ------------------------------------------------------------------------

\* a value of a row as a cell
CellOf(opt) == IF opt = None THEN NoneCell ELSE Num(opt[1])

\* build_sheet_rows without the header row
build_sheet_rows_NoHeader(client, m5, m10, tests) ==
    [i \in 1..Len(tests) |->
          <<Text(tests[i]),
            IF tests[i] \in DOMAIN client.data THEN CellOf(client.data[tests[i]]) ELSE Text(""),
            IF tests[i] \in DOMAIN m5 THEN Num(m5[tests[i]]) ELSE Text(""),
            IF tests[i] \in DOMAIN m10 THEN Num(m10[tests[i]]) ELSE Text("")>>]

\* build_sheet_rows
build_sheet_rows(client, m5, m10, tests) ==
    <<  <<Text("Test"), Text("Baseline"), Text("Year 5 Mean"), Text("Year 10 Mean")>>  >>
    \o [i \in 1..Len(tests) |->
          <<Text(tests[i]),
            IF tests[i] \in DOMAIN client.data THEN CellOf(client.data[tests[i]]) ELSE Text(""),
            IF tests[i] \in DOMAIN m5 THEN Num(m5[tests[i]]) ELSE Text(""),
            IF tests[i] \in DOMAIN m10 THEN Num(m10[tests[i]]) ELSE Text("")>>]

\* ------------------------------------------------------------------------
\* Text: a string is the sequence of its characters
\* ------------------------------------------------------------------------

\* invalid = set('[]:*?/\\')
\* the characters of the strings of the model
Chars(str) ==
    CASE str = "Age" -> <<"A", "g", "e">>
      [] str = "Name" -> <<"N", "a", "m", "e">>
      [] str = "Ann" -> <<"A", "n", "n">>
      [] str = "Bob" -> <<"B", "o", "b">>
      [] str = "Cy" -> <<"C", "y">>
      [] str = "Di" -> <<"D", "i">>
      [] str = "Sheet1" -> <<"S", "h", "e", "e", "t", "1">>
      [] str = "Test" -> <<"T", "e", "s", "t">>
      [] str = "Baseline" -> <<"B", "a", "s", "e", "l", "i", "n", "e">>
      [] str = "Year 5 Mean" -> <<"Y", "e", "a", "r", " ", "5", " ", "M", "e", "a", "n">>
      [] str = "Year 10 Mean" -> <<"Y", "e", "a", "r", " ", "1", "0", " ", "M", "e", "a", "n">>
      [] str = "VO2 max" -> <<"V", "O", "2", " ", "m", "a", "x">>
      [] str = "VO2 Max (ml/kg/min)" -> <<"V", "O", "2", " ", "M", "a", "x", " ", "(", "m", "l", "/", "k", "g", "/", "m", "i", "n", ")">>
      [] str = "HOMA-IR" -> <<"H", "O", "M", "A", "-", "I", "R">>
      [] str = "Homa IR" -> <<"H", "o", "m", "a", " ", "I", "R">>
      [] str = "Processing Speed" -> <<"P", "r", "o", "c", "e", "s", "s", "i", "n", "g", " ", "S", "p", "e", "e", "d">>
      [] str = "Grip Strength (kg)" -> <<"G", "r", "i", "p", " ", "S", "t", "r", "e", "n", "g", "t", "h", " ", "(", "k", "g", ")">>
      [] str = "Grip Strength" -> <<"G", "r", "i", "p", " ", "S", "t", "r", "e", "n", "g", "t", "h">>
      [] str = "Sit and Reach" -> <<"S", "i", "t", " ", "a", "n", "d", " ", "R", "e", "a", "c", "h">>
      [] str = "Fasting Glucose" -> <<"F", "a", "s", "t", "i", "n", "g", " ", "G", "l", "u", "c", "o", "s", "e">>
      [] str = "FEV1" -> <<"F", "E", "V", "1">>
      [] str = "Notes" -> <<"N", "o", "t", "e", "s">>
      [] str = "n/a" -> <<"n", "/", "a">>
      [] str = "  " -> <<" ", " ">>
      [] str = "a&b" -> <<"a", "&", "b">>
      [] str = "x<y>'\"q" -> <<"x", "<", "y", ">", "'", "\"", "q">>
      [] str = "a\rb" -> <<"a", "\r", "b">>
      [] str = "S\tx" -> <<"S", "\t", "x">>
      [] str = "Q&A <1>" -> <<"Q", "&", "A", " ", "<", "1", ">">>
      [] str = "vo2 max" -> <<"v", "o", "2", " ", "m", "a", "x">>
      [] str = "fev1" -> <<"f", "e", "v", "1">>
      [] str = "grip strength" -> <<"g", "r", "i", "p", " ", "s", "t", "r", "e", "n", "g", "t", "h">>
      [] str = "sts power" -> <<"s", "t", "s", " ", "p", "o", "w", "e", "r">>
      [] str = "vertical jump" -> <<"v", "e", "r", "t", "i", "c", "a", "l", " ", "j", "u", "m", "p">>
      [] str = "body fat" -> <<"b", "o", "d", "y", " ", "f", "a", "t">>
      [] str = "waist to height ratio" -> <<"w", "a", "i", "s", "t", " ", "t", "o", " ", "h", "e", "i", "g", "h", "t", " ", "r", "a", "t", "i", "o">>
      [] str = "fasting glucose" -> <<"f", "a", "s", "t", "i", "n", "g", " ", "g", "l", "u", "c", "o", "s", "e">>
      [] str = "hba1c" -> <<"h", "b", "a", "1", "c">>
      [] str = "homa ir" -> <<"h", "o", "m", "a", " ", "i", "r">>
      [] str = "homa-ir" -> <<"h", "o", "m", "a", "-", "i", "r">>
      [] str = "apob" -> <<"a", "p", "o", "b">>
      [] str = "hscrp" -> <<"h", "s", "c", "r", "p">>
      [] str = "gait speed" -> <<"g", "a", "i", "t", " ", "s", "p", "e", "e", "d">>
      [] str = "timed up and go" -> <<"t", "i", "m", "e", "d", " ", "u", "p", " ", "a", "n", "d", " ", "g", "o">>
      [] str = "single leg stance" -> <<"s", "i", "n", "g", "l", "e", " ", "l", "e", "g", " ", "s", "t", "a", "n", "c", "e">>
      [] str = "sit and reach" -> <<"s", "i", "t", " ", "a", "n", "d", " ", "r", "e", "a", "c", "h">>
      [] str = "processing speed" -> <<"p", "r", "o", "c", "e", "s", "s", "i", "n", "g", " ", "s", "p", "e", "e", "d">>
      [] str = "working memory" -> <<"w", "o", "r", "k", "i", "n", "g", " ", "m", "e", "m", "o", "r", "y">>
      [] str = "abcdefghijklmnopqrstuvwxyz" -> <<"a", "b", "c", "d", "e", "f", "g", "h", "i", "j", "k", "l", "m", "n", "o", "p", "q", "r", "s", "t", "u", "v", "w", "x", "y", "z">>
      [] str = "p\fq" -> <<"p", "\f", "q">>
      [] str = "Eve" -> <<"E", "v", "e">>
      [] str = "Eve [2024/05]: baseline re-test results" ->
            <<"E", "v", "e", " ", "[", "2", "0", "2", "4", "/", "0", "5", "]", ":", " ", "b", "a", "s", "e", "l", "i", "n", "e", " ", "r", "e", "-", "t", "e", "s", "t", " ", "r", "e", "s", "u", "l", "t", "s">>
      [] str = "age" -> <<"a", "g", "e">>
      [] str = "  homa-ir " -> <<" ", " ", "h", "o", "m", "a", "-", "i", "r", " ">>
      [] str = "VO2" -> <<"V", "O", "2">>
      [] str = "My VO2 max" -> <<"M", "y", " ", "V", "O", "2", " ", "m", "a", "x">>
      [] str = "HbA1c (%)" -> <<"H", "b", "A", "1", "c", " ", "(", "%", ")">>
      [] str = "" -> <<>>

InvalidChars == {"[", "]", ":", "*", "?", "/", "\\"}

\* the slice bound of cleaned[:31]
SHEET_NAME_MAX == 31

\* sanitize_sheet_name without the truncation
sanitize_sheet_name_NoSlice(name) ==
    [i \in 1..Len(name) |-> IF name[i] \in InvalidChars THEN "_" ELSE name[i]]

\* sanitize_sheet_name
sanitize_sheet_name(name) ==
    LET cleaned == [i \in 1..Len(name) |-> IF name[i] \in InvalidChars THEN "_" ELSE name[i]]
    IN  SubSeq(cleaned, 1, Min(Len(cleaned), SHEET_NAME_MAX))

\* the decimal digits
DIGITS == <<"0", "1", "2", "3", "4", "5", "6", "7", "8", "9">>

\* str(n) for a whole number n >= 0
RECURSIVE IntDigits(_)
IntDigits(n) == IF n < 10 THEN <<DIGITS[n + 1]>> ELSE Append(IntDigits(n \div 10), DIGITS[(n % 10) + 1])

\* the number a string of decimal digits denotes
RECURSIVE DigitValue(_)
DigitValue(d) ==
    IF d = <<>> THEN 0
    ELSE 10 * DigitValue(SubSeq(d, 1, Len(d) - 1))
         + (CHOOSE q \in 0..9 : DIGITS[q + 1] = d[Len(d)])

\* str(n) for a Python int
FormatInt(n) == IF n < 0 THEN <<"-">> \o IntDigits(-n) ELSE IntDigits(n)

\* s without its trailing "0" characters
RECURSIVE StripZeros(_)
StripZeros(s) ==
    IF s # <<>> /\ s[Len(s)] = "0" THEN StripZeros(SubSeq(s, 1, Len(s) - 1)) ELSE s

\* s padded on the left with "0" up to n characters
RECURSIVE ZeroPad(_, _)
ZeroPad(s, n) == IF Len(s) >= n THEN s ELSE ZeroPad(<<"0">> \o s, n)

\* str(x) for the float x = n * 1e-8 with |x| < 1e16: the shortest decimal
\* that reads back as x, in exponent notation below 1e-4
FormatFloat(n) ==
    LET a == Abs(n)
        sign == IF n < 0 THEN <<"-">> ELSE <<>>
        sig == StripZeros(IntDigits(a))
        frac == StripZeros(ZeroPad(IntDigits(a % SCALE), 8))
    IN  IF a = 0 THEN <<"0", ".", "0">>
        ELSE IF a < LIMB
        THEN sign \o <<sig[1]>> \o (IF Len(sig) > 1 THEN <<".">> \o Tail(sig) ELSE <<>>)
                  \o <<"e", "-", "0", DIGITS[(8 - (Len(IntDigits(a)) - 1)) + 1]>>
        ELSE sign \o IntDigits(a \div SCALE) \o <<".">> \o (IF frac = <<>> THEN <<"0">> ELSE frac)

\* the cells of a row handed to the writer: a float, an int, a string, a
\* bool and None
CNum(x) == [t |-> "f", n |-> x, s |-> <<>>]

CInt(x) == [t |-> "i", n |-> x, s |-> <<>>]

CText(x) == [t |-> "s", n |-> 0, s |-> x]

CBool(b) == [t |-> "b", n |-> IF b THEN 1 ELSE 0, s |-> <<>>]

CNone == [t |-> "none", n |-> 0, s |-> <<>>]

\* str(val)
Str(val) ==
    CASE val.t = "f" -> FormatFloat(val.n)
      [] val.t = "i" -> FormatInt(val.n)
      [] val.t = "s" -> val.s
      [] val.t = "b" -> (IF val.n = 1 THEN <<"T", "r", "u", "e">> ELSE <<"F", "a", "l", "s", "e">>)
      [] OTHER -> <<"N", "o", "n", "e">>

\* s.replace(c, rep)
RECURSIVE Replace(_, _, _)
Replace(s, c, rep) ==
    IF s = <<>> THEN <<>>
    ELSE (IF Head(s) = c THEN rep ELSE <<Head(s)>>) \o Replace(Tail(s), c, rep)

\* xml_escape
xml_escape(s) ==
    Replace(Replace(Replace(Replace(Replace(s,
        "&", <<"&", "a", "m", "p", ";">>),
        "<", <<"&", "l", "t", ";">>),
        ">", <<"&", "g", "t", ";">>),
        "\"", <<"&", "q", "u", "o", "t", ";">>),
        "'", <<"&", "a", "p", "o", "s", ";">>)

\* chr(65 + r)
LETTERS == <<"A", "B", "C", "D", "E", "F", "G", "H", "I", "J", "K", "L", "M",
             "N", "O", "P", "Q", "R", "S", "T", "U", "V", "W", "X", "Y", "Z">>

\* the while loop of col_name
RECURSIVE ColNameLoop(_, _)
ColNameLoop(n, name) ==
    IF n > 0 THEN ColNameLoop((n - 1) \div 26, <<LETTERS[((n - 1) % 26) + 1]>> \o name)
    ELSE name

\* col_name with divmod(n, 26) in place of divmod(n - 1, 26)
col_name_Plain26(idx) ==
    LET F[n \in 0..(idx + 1)] ==
            IF n > 0 THEN F[n \div 26] \o <<LETTERS[(n % 26) + 1]>> ELSE <<>>
    IN  F[idx + 1]

\* col_name
col_name(idx) == ColNameLoop(idx + 1, <<>>)

\* c.isalpha() for the characters of the model
IsAlpha(c) ==
    c \in {LETTERS[i] : i \in 1..26}
          \cup {"a", "b", "c", "e", "g", "h", "i", "l", "m", "n", "o", "p", "q", "r", "s", "t", "u", "x"}

\* col_letter
col_letter(cell_ref) == SelectSeq(cell_ref, IsAlpha)

\* a <c> element: its r and t attributes, the text of its <v> child and of the
\* <t> child of its <is> child (None: no such child)
CellElement(ref, t, v, is) == [ref |-> ref, t |-> t, v |-> v, is |-> is]

\* write_sheet_xml, lines 464-469: the element of one cell that is not None
WriteCell(val, c_idx, r_idx) ==
    LET cell_ref == col_name(c_idx) \o IntDigits(r_idx)
    IN  IF val.t \in {"f", "i"}
        THEN CellElement(cell_ref, "", Some(Str(val)), None)
        ELSE CellElement(cell_ref, "inlineStr", None, Some(Some(xml_escape(Str(val)))))

\* write_sheet_xml, lines 461-469: the elements of a row from column c_idx on
RECURSIVE RowCells(_, _, _)
RowCells(row, r_idx, c_idx) ==
    IF c_idx >= Len(row) THEN <<>>
    ELSE (IF row[c_idx + 1].t = "none" THEN <<>>
          ELSE <<WriteCell(row[c_idx + 1], c_idx, r_idx)>>)
         \o RowCells(row, r_idx, c_idx + 1)

\* write_sheet_xml: the <row> elements of <sheetData>, with their r attribute
write_sheet_xml(rows) ==
    [r_idx \in 1..Len(rows) |-> [r |-> IntDigits(r_idx), cells |-> RowCells(rows[r_idx], r_idx, 0)]]

\* the f-string of main before sanitize_sheet_name: name, "_", int(age) or ''
RawSheetName(client) ==
    Chars(client.name) \o <<"_">>
        \o (IF client.age = None THEN <<>> ELSE FormatInt(client.age[1]))

\* the names of the members of an archive: a name is the sequence of its pieces
ContentTypesXml == <<"[Content_Types].xml">>

RootRels == <<"_rels/.rels">>

WorkbookXml == <<"xl/", "workbook.xml">>

WorkbookRels == <<"xl/", "_rels/workbook.xml.rels">>

StylesXml == <<"xl/", "styles.xml">>

SharedStringsXml == <<"xl/", "sharedStrings.xml">>

\* f'worksheets/sheet{i + 1}.xml', for the 1-based i
SheetTarget(i) == <<"worksheets/sheet">> \o IntDigits(i) \o <<".xml">>

\* f'rId{i + 1}', for the 1-based i
RelId(i) == <<"rId">> \o IntDigits(i)

\* a <Relationship> element
Relationship(id, type, target) == [Id |-> id, Type |-> type, Target |-> target]

\* the Id of the styles relationship, taken to be rId1
StylesRelId_First(n) == RelId(1)

\* the Id of the styles relationship of a workbook of n sheets
StylesRelId(n) == RelId(n + 1)

\* write_xlsx: the archive written, a function from member names to their
\* parsed-as-written content (attribute values and texts are kept as written,
\* before any XML decoding)
write_xlsx(sheetList) ==
    LET n == Len(sheetList)
    IN  (ContentTypesXml :>
            (<< <<"/">> \o WorkbookXml, <<"/">> \o StylesXml >>
             \o [i \in 1..n |-> <<"/", "xl/">> \o SheetTarget(i)]))
        @@ (RootRels :> <<Relationship(RelId(1), "officeDocument", WorkbookXml)>>)
        @@ (WorkbookXml :>
            [i \in 1..n |-> [name |-> xml_escape(sheetList[i][1]),
                             sheetId |-> IntDigits(i),
                             rid |-> RelId(i)]])
        @@ (WorkbookRels :>
            ([i \in 1..n |-> Relationship(RelId(i), "worksheet", SheetTarget(i))]
             \o <<Relationship(StylesRelId(n), "styles", <<"styles.xml">>)>>))
        @@ (StylesXml :> <<"styleSheet">>)
        @@ [path \in {<<"xl/">> \o SheetTarget(i) : i \in 1..n} |->
               write_sheet_xml(sheetList[CHOOSE i \in 1..n : <<"xl/">> \o SheetTarget(i) = path][2])]

\* Python's whitespace, for the characters of the model
Whitespace == {" ", "\t", "\n", "\r", "\f"}

\* s.strip()
RECURSIVE Strip(_)
Strip(s) ==
    IF s = <<>> THEN s
    ELSE IF Head(s) \in Whitespace THEN Strip(Tail(s))
    ELSE IF s[Len(s)] \in Whitespace THEN Strip(SubSeq(s, 1, Len(s) - 1))
    ELSE s

\* s is a non-empty string of decimal digits
IsDigits(s) == s # <<>> /\ \A i \in 1..Len(s) : s[i] \in {DIGITS[q] : q \in 1..10}

\* the position of the first character of s that is in set, 0 if there is none
FirstIn(s, set) ==
    IF \E i \in 1..Len(s) : s[i] \in set
    THEN CHOOSE i \in 1..Len(s) : s[i] \in set /\ \A j \in 1..(i - 1) : s[j] \notin set
    ELSE 0

\* an optional sign followed by digits: the number, None otherwise
SignedDigits(s) ==
    LET signed == s # <<>> /\ s[1] \in {"-", "+"}
        body == IF signed THEN Tail(s) ELSE s
    IN  IF IsDigits(body)
        THEN Some((IF signed /\ s[1] = "-" THEN -1 ELSE 1) * DigitValue(body))
        ELSE None

\* int(text) for decimal text without underscores: None when it raises
ParseInt(text) == SignedDigits(Strip(text))

\* 10^e
RECURSIVE Pow10(_)
Pow10(e) == IF e = 0 THEN 1 ELSE 10 * Pow10(e - 1)

\* a float as its floor and the rest in units of 1e-8
NumOfFixed(n) == [w |-> n \div SCALE, f |-> n % SCALE]

NumOfInt(n) == [w |-> n, f |-> 0]

\* -x
NumNeg(x) == IF x.f = 0 THEN [w |-> -x.w, f |-> 0] ELSE [w |-> -x.w - 1, f |-> SCALE - x.f]

\* float(text), for decimal text ("12", "1.5", ".5", "1e-07") with at most
\* eight digits after the point, and with an exponent only below 21 in
\* magnitude; None when float() raises. The words float() also accepts (inf,
\* nan, infinity) and underscores are not among the texts of the model.
ParseNum(text) ==
    LET str == Strip(text)
        signed == str # <<>> /\ str[1] \in {"-", "+"}
        body == IF signed THEN Tail(str) ELSE str
        epos == FirstIn(body, {"e", "E"})
        mant == IF epos = 0 THEN body ELSE SubSeq(body, 1, epos - 1)
        expo == IF epos = 0 THEN Some(0) ELSE SignedDigits(SubSeq(body, epos + 1, Len(body)))
        dot == FirstIn(mant, {"."})
        ip == IF dot = 0 THEN mant ELSE SubSeq(mant, 1, dot - 1)
        fp == IF dot = 0 THEN <<>> ELSE SubSeq(mant, dot + 1, Len(mant))
        ok == /\ expo # None
              /\ ip \o fp # <<>>
              /\ ip = <<>> \/ IsDigits(ip)
              /\ fp = <<>> \/ IsDigits(fp)
        shift == expo[1] - Len(fp) + 8
        digits == DigitValue(ip \o fp)
        mag == IF expo[1] = 0
               THEN [w |-> DigitValue(ip), f |-> DigitValue(fp) * Pow10(8 - Len(fp))]
               ELSE NumOfFixed(IF shift >= 0 THEN digits * Pow10(shift)
                               ELSE (digits + (Pow10(-shift) \div 2)) \div Pow10(-shift))
    IN  IF ok THEN Some(IF signed /\ str[1] = "-" THEN NumNeg(mag) ELSE mag) ELSE None

\* the character references xml_escape writes
Entities ==
    << <<"&", "a", "m", "p", ";">>, <<"&", "l", "t", ";">>, <<"&", "g", "t", ";">>,
       <<"&", "q", "u", "o", "t", ";">>, <<"&", "a", "p", "o", "s", ";">> >>

\* the character each of them stands for
EntityChars == <<"&", "<", ">", "\"", "'">>

\* what the XML parser makes of the written text of an element (attr FALSE)
\* or of an attribute value (attr TRUE): references are replaced, a line end
\* \r\n or \r becomes \n, white space in an attribute value becomes a space;
\* None when the parser rejects the document (a bare & or <, a quote inside an
\* attribute value, a form feed)
RECURSIVE XmlDecode(_, _)
XmlDecode(raw, attr) ==
    IF raw = <<>> THEN Some(<<>>)
    ELSE LET h == Head(raw)
             ent == {e \in 1..Len(Entities) :
                        /\ Len(raw) >= Len(Entities[e])
                        /\ SubSeq(raw, 1, Len(Entities[e])) = Entities[e]}
             skip == IF h = "&" /\ ent # {} THEN Len(Entities[CHOOSE e \in ent : TRUE])
                     ELSE 1
             out == IF h = "&" /\ ent # {} THEN <<EntityChars[CHOOSE e \in ent : TRUE]>>
                    ELSE IF h = "\r" /\ Len(raw) > 1 /\ raw[2] = "\n" THEN <<>>
                    ELSE IF h = "\r" THEN <<IF attr THEN " " ELSE "\n">>
                    ELSE IF attr /\ h \in {"\t", "\n"} THEN <<" ">>
                    ELSE <<h>>
             rest == XmlDecode(SubSeq(raw, skip + 1, Len(raw)), attr)
         IN  IF (h = "&" /\ ent = {}) \/ h = "<" \/ h = "\f" \/ (attr /\ h = "\"")
                \/ rest = None
             THEN None
             ELSE Some(out \o rest[1])

\* read_shared_strings: the table of xl/sharedStrings.xml, empty without it
read_shared_strings(z) ==
    IF SharedStringsXml \notin DOMAIN z THEN <<>>
    ELSE [i \in 1..Len(z[SharedStringsXml]) |-> XmlDecode(z[SharedStringsXml][i], FALSE)[1]]

\* parse_cell_value without the inline-string branch
parse_cell_value_NoInline(c, shared_strings) ==
    IF c.v = None THEN <<>>
    ELSE XmlDecode(c.v[1], FALSE)[1]

\* parse_cell_value
parse_cell_value(c, shared_strings) ==
    IF c.v = None
    THEN IF c.is # None /\ c.is[1] # None THEN XmlDecode(c.is[1][1], FALSE)[1] ELSE <<>>
    ELSE LET text == XmlDecode(c.v[1], FALSE)[1]
             idx == ParseInt(text)
             n == Len(shared_strings)
         IN  IF c.t = "s" /\ idx # None /\ idx[1] >= -n /\ idx[1] < n
             THEN shared_strings[IF idx[1] >= 0 THEN idx[1] + 1 ELSE n + idx[1] + 1]
             ELSE text

\* ET.fromstring on a worksheet part accepts it: every text of it decodes
SheetParses(doc) ==
    \A i \in 1..Len(doc) : \A j \in 1..Len(doc[i].cells) :
        LET c == doc[i].cells[j]
        IN  /\ c.v = None \/ XmlDecode(c.v[1], FALSE) # None
            /\ c.is = None \/ c.is[1] = None \/ XmlDecode(c.is[1][1], FALSE) # None

\* read_input_clients, lines 74-78: the columns A and B of one row after its cells
RECURSIVE RowCols(_, _, _, _)
RowCols(cells, shared, j, cols) ==
    IF j > Len(cells) THEN cols
    ELSE LET col == col_letter(cells[j].ref)
             val == parse_cell_value(cells[j], shared)
         IN  RowCols(cells, shared, j + 1,
                     IF col = <<"A">> THEN [cols EXCEPT !.A = val]
                     ELSE IF col = <<"B">> THEN [cols EXCEPT !.B = val]
                     ELSE cols)

\* read_input_clients, lines 70-78: row_map in insertion order, a row being
\* its number and its columns A and B ('' where missing)
RECURSIVE RowMap(_, _, _, _)
RowMap(doc, shared, i, row_map) ==
    IF i > Len(doc) THEN row_map
    ELSE LET rn == ParseInt(doc[i].r)[1]
             at == {j \in 1..Len(row_map) : row_map[j].rn = rn}
             old == IF at = {} THEN [rn |-> rn, A |-> <<>>, B |-> <<>>]
                    ELSE row_map[CHOOSE j \in at : TRUE]
             new == RowCols(doc[i].cells, shared, 1, old)
         IN  RowMap(doc, shared, i + 1,
                    IF at = {} THEN Append(row_map, new)
                    ELSE [row_map EXCEPT ![CHOOSE j \in at : TRUE] = new])

\* read_input_clients, lines 80-85: label_to_value in insertion order
RECURSIVE LabelToValue(_, _, _)
LabelToValue(row_map, i, ltv) ==
    IF i > Len(row_map) THEN ltv
    ELSE LET at == {j \in 1..Len(ltv) : ltv[j].label = row_map[i].A}
             new == [label |-> row_map[i].A, value |-> row_map[i].B]
         IN  LabelToValue(row_map, i + 1,
                          IF row_map[i].A = <<>> THEN ltv
                          ELSE IF at = {} THEN Append(ltv, new)
                          ELSE [ltv EXCEPT ![CHOOSE j \in at : TRUE] = new])

\* label_to_value.get(label, '')
LtvGet(ltv, label) ==
    IF \E j \in 1..Len(ltv) : ltv[j].label = label
    THEN ltv[CHOOSE j \in 1..Len(ltv) : ltv[j].label = label].value
    ELSE <<>>

\* c.lower(), for the characters of the model
Lower(c) ==
    IF \E i \in 1..26 : LETTERS[i] = c
    THEN Chars("abcdefghijklmnopqrstuvwxyz")[CHOOSE i \in 1..26 : LETTERS[i] = c]
    ELSE c

\* the if/elif chain of read_input_clients: prefix and canonical test, "" for
\* the prefix that is recognized and dropped
LABEL_CHAIN ==
    << <<"vo2 max", "VO2 max">>, <<"fev1", "FEV1">>, <<"grip strength", "Grip Strength">>,
       <<"sts power", "STS Power">>, <<"vertical jump", "Vertical Jump">>,
       <<"body fat", "Body Fat %">>, <<"waist to height ratio", "Waist to Height Ratio">>,
       <<"fasting glucose", "">>, <<"hba1c", "HbA1c">>, <<"homa ir", "HOMA-IR">>,
       <<"homa-ir", "HOMA-IR">>, <<"apob", "ApoB">>, <<"hscrp", "hsCRP">>,
       <<"gait speed", "Gait Speed">>, <<"timed up and go", "Timed Up and Go">>,
       <<"single leg stance", "Single Leg Stance">>, <<"sit and reach", "Sit and Reach">>,
       <<"processing speed", "Processing Speed">>, <<"working memory", "Working Memory">> >>

\* the canonical test of a label that is compared as it stands, without strip()
KeyOfLabel_NoStrip(label) ==
    LET l == [i \in 1..Len(label) |-> Lower(label[i])]
        hits == {e \in 1..Len(LABEL_CHAIN) :
                    /\ Len(l) >= Len(Chars(LABEL_CHAIN[e][1]))
                    /\ SubSeq(l, 1, Len(Chars(LABEL_CHAIN[e][1]))) = Chars(LABEL_CHAIN[e][1])}
    IN  IF hits = {} THEN ""
        ELSE LABEL_CHAIN[CHOOSE e \in hits : \A f \in hits : e <= f][2]

\* the canonical test of a label, "" when the chain assigns none
KeyOfLabel(label) ==
    LET l == [i \in 1..Len(Strip(label)) |-> Lower(Strip(label)[i])]
        hits == {e \in 1..Len(LABEL_CHAIN) :
                    /\ Len(l) >= Len(Chars(LABEL_CHAIN[e][1]))
                    /\ SubSeq(l, 1, Len(Chars(LABEL_CHAIN[e][1]))) = Chars(LABEL_CHAIN[e][1])}
    IN  IF hits = {} THEN ""
        ELSE LABEL_CHAIN[CHOOSE e \in hits : \A f \in hits : e <= f][2]

\* read_input_clients, lines 95-137: data after the labels from i on
RECURSIVE DataOf(_, _, _)
DataOf(ltv, i, data) ==
    IF i > Len(ltv) THEN data
    ELSE LET key == KeyOfLabel(ltv[i].label)
         IN  DataOf(ltv, i + 1,
                    IF key = "" THEN data
                    ELSE (key :> ParseNum(ltv[i].value)) @@ data)

\* read_input_clients, lines 66-143: the client of one sheet
ClientOfSheet(name, doc, shared) ==
    LET ltv == LabelToValue(RowMap(doc, shared, 1, <<>>), 1, <<>>)
        name_val == Strip(LtvGet(ltv, Chars("Name")))
    IN  [sheet_name |-> name,
         name |-> IF name_val # <<>> THEN name_val ELSE name,
         age |-> ParseNum(LtvGet(ltv, Chars("Age"))),
         data |-> DataOf(ltv, 1, <<>>)]

\* rel_map[rid]: the target of the last relationship with that Id, None
\* when there is none
RelTarget(rels, rid) ==
    LET at == {j \in 1..Len(rels) : rels[j].Id = rid}
    IN  IF at = {} THEN None ELSE Some(rels[CHOOSE j \in at : \A j2 \in at : j2 <= j].Target)

\* the loop of read_input_clients over the sheets of workbook.xml from the
\* i-th on: the exception raised ("" for none) and the clients returned
RECURSIVE SheetLoop(_, _, _, _)
SheetLoop(z, shared, i, acc) ==
    LET wb == z[WorkbookXml]
        target == RelTarget(z[WorkbookRels], wb[i].rid)
        path_sheet == <<"xl/">> \o target[1]
    IN  IF i > Len(wb) THEN [err |-> "", clients |-> acc]
        ELSE IF target = None \/ path_sheet \notin DOMAIN z
        THEN [err |-> "KeyError", clients |-> <<>>]
        ELSE IF ~SheetParses(z[path_sheet])
        THEN [err |-> "ParseError", clients |-> <<>>]
        ELSE IF \E j \in 1..Len(z[path_sheet]) : ParseInt(z[path_sheet][j].r) = None
        THEN [err |-> "ValueError", clients |-> <<>>]
        ELSE SheetLoop(z, shared, i + 1,
                       Append(acc, ClientOfSheet(XmlDecode(wb[i].name, TRUE)[1],
                                                 z[path_sheet], shared)))

\* read_input_clients on an archive: the exception raised ("" for none) and
\* the list returned
ReadXlsx(z) ==
    IF WorkbookXml \notin DOMAIN z THEN [err |-> "KeyError", clients |-> <<>>]
    ELSE IF \E i \in 1..Len(z[WorkbookXml]) : XmlDecode(z[WorkbookXml][i].name, TRUE) = None
    THEN [err |-> "ParseError", clients |-> <<>>]
    ELSE IF WorkbookRels \notin DOMAIN z THEN [err |-> "KeyError", clients |-> <<>>]
    ELSE SheetLoop(z, read_shared_strings(z), 1, <<>>)

\* is_bad with the tolerance itself counted as beyond it
is_bad_Inclusive(delta, baseline, higher, sanity) ==
    LET tol == Max(sanity.tolerance_abs, Mul(sanity.tolerance_rel, Abs(baseline)))
    IN  IF higher THEN delta >= tol ELSE delta <= -tol

\* is_bad of run_decline_sanity_checks
is_bad(delta, baseline, higher, sanity) ==
    LET tol == Max(sanity.tolerance_abs, Mul(sanity.tolerance_rel, Abs(baseline)))
    IN  IF higher THEN delta > tol ELSE delta < -tol

\* the line run_decline_sanity_checks prints for a test at a horizon
SanityMessage(year, client, test, mean) ==
    [year |-> year, name |-> client.name, test |-> test,
     baseline |-> client.data[test][1], mean |-> mean]

\* run_decline_sanity_checks, lines 584-604: the lines printed for the tests
\* from the i-th on
RECURSIVE SanityLoop(_, _, _, _, _)
SanityLoop(client, m5, m10, config, i) ==
    IF i > Len(config.tests_order) THEN <<>>
    ELSE LET test == config.tests_order[i]
             baseline == client.data[test][1]
             higher == test \in config.higher_is_better
             at(year, means) ==
                 IF test \in DOMAIN means
                    /\ is_bad(means[test] - baseline, baseline, higher, config.sanity_check)
                 THEN <<SanityMessage(year, client, test, means[test])>>
                 ELSE <<>>
         IN  (IF test \notin DOMAIN client.data \/ client.data[test] = None
                 \/ test \notin config.higher_is_better \cup config.lower_is_better
              THEN <<>>
              ELSE at(5, m5) \o at(10, m10))
             \o SanityLoop(client, m5, m10, config, i + 1)

\* run_decline_sanity_checks: the lines it prints
run_decline_sanity_checks(client, m5, m10, config) ==
    IF ~(Has(config, "sanity_check") /\ config.sanity_check.enabled) THEN <<>>
    ELSE SanityLoop(client, m5, m10, config, 1)

\* the keys run_decline_sanity_checks reads with cfg[...] when it is enabled
SanityKeys == {"tests_order", "higher_is_better", "lower_is_better"}

\* a call of run_decline_sanity_checks that sets every flagged mean back to
\* the baseline
SanityCall_Resetting(client, m5, m10, config) ==
    LET lines == run_decline_sanity_checks(client, m5, m10, config)
        flagged(year, test) ==
            \E i \in 1..Len(lines) : lines[i].year = year /\ lines[i].test = test
        reset(year, means) ==
            [t \in DOMAIN means |->
                IF flagged(year, t) THEN client.data[t][1] ELSE means[t]]
    IN  [err |-> "", printed |-> lines, client |-> client,
         mean5 |-> reset(5, m5), mean10 |-> reset(10, m10), cfg |-> config]

\* a call of run_decline_sanity_checks, lines 566-604: the exception it
\* raises, the lines it prints, and its four arguments after the call
SanityCall(client, m5, m10, config) ==
    LET enabled == Has(config, "sanity_check") /\ config.sanity_check.enabled
        raised == IF enabled /\ SanityKeys \cap config.missing # {} THEN "KeyError" ELSE ""
    IN  [err |-> raised,
         printed |-> IF raised = "" THEN run_decline_sanity_checks(client, m5, m10, config)
                     ELSE <<>>,
         client |-> client, mean5 |-> m5, mean10 |-> m10, cfg |-> config]

\* main calls the sanity check in every scenario
SanityApplies_Always(scn) == TRUE

\* main calls the sanity check in this scenario: the decline loop only
SanityApplies(scn) == scn = "decline"

\* ------------------------------------------------------------------------
\* main
\* ------------------------------------------------------------------------

\* SeededRng without the call of random.seed
SeededRng_NotSeeded(c, r) == r

\* main, lines 620-623: the generator after the optional random.seed
SeededRng(c, r) == IF c.seed # None THEN SeedState(c.seed[1]) ELSE r

\* LoopEnds without the break on success
LoopEnds_NoBreak(factor, i) == i = Len(EPS_LIST)

\* the eps loop of build_correlation ends: break on success, or list exhausted
LoopEnds(factor, i) == factor # None \/ i = Len(EPS_LIST)

\* an exception leaves main
Abort(e) == pc' = "aborted" /\ err' = e

\* main up to the reading of the input: config loaded, generator seeded
LoadAndSeed ==
    /\ pc = "start"
    /\ rng' = SeededRng(cfg, rng)
    /\ pc' = "read"
    /\ UNCHANGED <<cfg, workbook, err, clients, corrVars, simVars, sheets, files, run,
                   firstFiles, printed, draw, probe>>

\* clients = read_input_clients(input_path); tests = cfg['tests_order']
ReadInput ==
    /\ pc = "read"
    /\ clients' = read_input_clients(workbook)
    /\ IF Has(cfg, "tests_order")
       THEN pc' = "corr_build" /\ err' = err
       ELSE Abort("KeyError")
    /\ UNCHANGED <<cfg, workbook, rng, corrVars, simVars, sheets, files, run, firstFiles, printed, draw, probe>>

\* build_correlation, lines 170-183: the matrix is assembled
BuildMatrix ==
    /\ pc = "corr_build"
    /\ IF ~Has(cfg, "correlations")
          \/ \E p \in 1..Len(cfg.correlations.pairs) :
                \/ IndexOf(cfg.correlations.tests, cfg.correlations.pairs[p][1]) = 0
                \/ IndexOf(cfg.correlations.tests, cfg.correlations.pairs[p][2]) = 0
       THEN Abort("KeyError") /\ UNCHANGED corrVars
       ELSE /\ corr' = CorrMatrix(cfg.correlations.tests, cfg.correlations.pairs)
            /\ L' = None
            /\ attempt' = 1
            /\ pc' = "corr_try"
            /\ UNCHANGED <<err, corr_eps, tried>>
    /\ UNCHANGED <<cfg, workbook, rng, clients, simVars, sheets, files, run, firstFiles, printed, draw, probe>>

\* build_correlation, lines 184-193: one iteration of the loop over epsilons
TryEpsilon ==
    /\ pc = "corr_try"
    /\ LET eps == EPS_LIST[attempt]
           m == Inflate(corr, eps)
           factor == cholesky(m)
       IN  /\ corr_eps' = m
           /\ tried' = Append(tried, eps)
           /\ L' = factor
           /\ IF LoopEnds(factor, attempt)
              THEN pc' = "corr_end" /\ attempt' = attempt
              ELSE pc' = "corr_try" /\ attempt' = attempt + 1
    /\ UNCHANGED <<cfg, workbook, err, rng, clients, corr, simVars, sheets, files, run,
                   firstFiles, printed, draw, probe>>

\* build_correlation, lines 194-196, and main up to the first client
CorrelationReturn ==
    /\ pc = "corr_end"
    /\ IF L = None
       THEN Abort("RuntimeError") /\ UNCHANGED <<scenario, ci, sheets>>
       ELSE /\ pc' = "client"
            /\ scenario' = "decline"
            /\ ci' = 1
            /\ sheets' = <<>>
            /\ err' = err
    /\ UNCHANGED <<cfg, workbook, rng, clients, corrVars, k, sums5, sums10, mean5, mean10,
                   trace, files, run, firstFiles, printed, draw, probe>>

\* simulate_client, lines 332-357: the config is read, the accumulators zeroed
SimBegin ==
    /\ pc = "client"
    /\ ci <= Len(clients)
    /\ IF SimKeys \cap cfg.missing # {}
       THEN Abort("KeyError") /\ UNCHANGED <<k, sums5, sums10, trace>>
       ELSE /\ k' = 0
            /\ sums5' = [t \in TestSet(cfg) |-> 0]
            /\ sums10' = [t \in TestSet(cfg) |-> 0]
            /\ trace' = {}
            /\ pc' = "draw"
            /\ err' = err
    /\ UNCHANGED <<cfg, workbook, rng, clients, corrVars, scenario, ci, mean5, mean10, sheets,
                   files, run, firstFiles, printed, draw, probe>>

\* simulate_client, lines 359-433: one draw for every test and both horizons
SimDraw ==
    /\ pc = "draw"
    /\ k < cfg.n_sim
    /\ \E st \in {OneDraw(cfg, clients[ci], cfg.correlations.tests, L[1], scenario,
                            [err |-> "", rng |-> rng, rate |-> <<>>, rate_post |-> <<>>,
                             true0 |-> <<>>, sums5 |-> sums5, sums10 |-> sums10,
                             trace |-> trace, z_corr |-> <<>>, shock |-> <<>>,
                             denoise |-> <<>>, steps |-> <<>>])} :
           /\ rng' = st.rng
           /\ draw' = [z_corr |-> st.z_corr, shock |-> st.shock, rate |-> st.rate,
                       rate_post |-> st.rate_post, denoise |-> st.denoise,
                       true0 |-> st.true0, steps |-> st.steps]
           /\ sums5' = st.sums5
           /\ sums10' = st.sums10
           /\ trace' = st.trace
           /\ IF st.err # ""
              THEN Abort(st.err) /\ k' = k
              ELSE pc' = pc /\ err' = err /\ k' = k + 1
    /\ UNCHANGED <<cfg, workbook, clients, corrVars, scenario, ci, mean5, mean10, sheets, files,
                   run, firstFiles, printed, probe>>

\* simulate_client, lines 435-437: the means are returned
SimEnd ==
    /\ pc = "draw"
    /\ k >= cfg.n_sim
    /\ IF cfg.n_sim = 0 /\ TestSet(cfg) # {}
       THEN Abort("ZeroDivisionError") /\ UNCHANGED <<mean5, mean10>>
       ELSE /\ mean5' = [t \in TestSet(cfg) |-> Quot(sums5[t], cfg.n_sim)]
            /\ mean10' = [t \in TestSet(cfg) |-> Quot(sums10[t], cfg.n_sim)]
            /\ pc' = "append"
            /\ err' = err
    /\ UNCHANGED <<cfg, workbook, rng, clients, corrVars, scenario, ci, k, sums5, sums10, trace,
                   sheets, files, run, firstFiles, printed, draw, probe>>

\* main, lines 644-650 and 655-660: the sanity check of the decline means,
\* and the client's sheet joins the list
AppendSheet ==
    /\ pc = "append"
    /\ \E st \in {IF SanityApplies(scenario)
                   THEN SanityCall(clients[ci], mean5, mean10, cfg)
                   ELSE [err |-> "", printed |-> <<>>, client |-> clients[ci],
                         mean5 |-> mean5, mean10 |-> mean10, cfg |-> cfg]} :
           /\ printed' = printed \o st.printed
           /\ clients' = [clients EXCEPT ![ci] = st.client]
           /\ mean5' = st.mean5
           /\ mean10' = st.mean10
           /\ cfg' = st.cfg
           /\ IF st.err # ""
              THEN Abort(st.err) /\ UNCHANGED <<sheets, ci>>
              ELSE /\ sheets' = Append(sheets,
                                       [name |-> sanitize_sheet_name(RawSheetName(st.client)),
                                        rows |-> build_sheet_rows(st.client, st.mean5, st.mean10,
                                                                  st.cfg.tests_order)])
                   /\ ci' = ci + 1
                   /\ pc' = "client"
                   /\ err' = err
    /\ UNCHANGED <<workbook, rng, corrVars, scenario, k, sums5, sums10, trace, files, run,
                   firstFiles, draw, probe>>

\* main, lines 651-653 and 661: write_xlsx of the scenario's sheets
WriteWorkbook ==
    /\ pc = "client"
    /\ ci > Len(clients)
    /\ files' = [files EXCEPT ![scenario] = Some(sheets)]
    /\ IF scenario = "decline"
       THEN scenario' = "improvement" /\ ci' = 1 /\ sheets' = <<>> /\ pc' = "client"
       ELSE scenario' = scenario /\ ci' = ci /\ sheets' = sheets /\ pc' = "done"
    /\ UNCHANGED <<cfg, workbook, err, rng, clients, corrVars, k, sums5, sums10, mean5, mean10,
                   trace, run, firstFiles, printed, draw, probe>>

\* the state of a process that has not started main
Fresh ==
    /\ pc = "start"
    /\ err = ""
    /\ clients = <<>>
    /\ corr = <<>> /\ attempt = 0 /\ corr_eps = <<>> /\ L = None /\ tried = <<>>
    /\ scenario = "" /\ ci = 0 /\ k = 0
    /\ sums5 = <<>> /\ sums10 = <<>> /\ mean5 = <<>> /\ mean10 = <<>> /\ trace = {}
    /\ sheets = <<>>
    /\ printed = <<>>
    /\ draw = <<>>
    /\ files = [decline |-> None, improvement |-> None]

\* the generator states a process can start in when nothing seeds it
EntropyStates == {3, 6}

\* the pipeline is run again on the same config and input, in a new process
Rerun ==
    /\ run = 1
    /\ pc \in {"done", "aborted"}
    /\ run' = 2
    /\ firstFiles' = [files |-> files, err |-> err, rng |-> rng, workbook |-> workbook]
    /\ pc' = "start"
    /\ err' = ""
    /\ clients' = <<>>
    /\ corr' = <<>> /\ attempt' = 0 /\ corr_eps' = <<>> /\ L' = None /\ tried' = <<>>
    /\ scenario' = "" /\ ci' = 0 /\ k' = 0
    /\ sums5' = <<>> /\ sums10' = <<>> /\ mean5' = <<>> /\ mean10' = <<>> /\ trace' = {}
    /\ sheets' = <<>>
    /\ printed' = <<>>
    /\ draw' = <<>>
    /\ files' = [decline |-> None, improvement |-> None]
    /\ rng' \in EntropyStates
    /\ UNCHANGED <<cfg, workbook, probe>>

\* sanitize_sheet_name applied to probe.input
ProbeSanitize ==
    /\ probe.stage = "name"
    /\ probe' = [probe EXCEPT !.stage = "sanitized", !.output = sanitize_sheet_name(probe.input)]
    /\ UNCHANGED <<cfg, workbook, pc, err, rng, clients, corrVars, simVars, sheets, files, run,
                   firstFiles, printed, draw>>

\* write_sheet_xml applied to probe.input
ProbeWriteSheet ==
    /\ probe.stage = "rows"
    /\ probe' = [probe EXCEPT !.stage = "sheet_xml", !.output = write_sheet_xml(probe.input)]
    /\ UNCHANGED <<cfg, workbook, pc, err, rng, clients, corrVars, simVars, sheets, files, run,
                   firstFiles, printed, draw>>

\* write_xlsx applied to probe.input
ProbeWriteXlsx ==
    /\ probe.stage = "sheets"
    /\ probe' = [probe EXCEPT !.stage = "written", !.archive = write_xlsx(probe.input)]
    /\ UNCHANGED <<cfg, workbook, pc, err, rng, clients, corrVars, simVars, sheets, files, run,
                   firstFiles, printed, draw>>

\* read_input_clients applied to probe.archive
ProbeReadXlsx ==
    /\ probe.stage \in {"written", "archive"}
    /\ probe' = [probe EXCEPT !.stage = "read", !.output = ReadXlsx(probe.archive)]
    /\ UNCHANGED <<cfg, workbook, pc, err, rng, clients, corrVars, simVars, sheets, files, run,
                   firstFiles, printed, draw>>

\* run_decline_sanity_checks applied to the client and the means of probe
ProbeSanity ==
    /\ probe.stage = "means"
    /\ probe' = [probe EXCEPT !.stage = "checked",
                              !.output = run_decline_sanity_checks(probe.client, probe.mean5,
                                                                   probe.mean10, cfg)]
    /\ UNCHANGED <<cfg, workbook, pc, err, rng, clients, corrVars, simVars, sheets, files, run,
                   firstFiles, printed, draw>>

\* apply_decline applied to probe.input, with its locals years1 and years2
ProbeSplit ==
    /\ probe.stage = "decline_in"
    /\ LET in == probe.input
       IN  probe' = [probe EXCEPT
                        !.stage = "declined",
                        !.years1 = DeclineYears1(in.age_start, in.years, in.accel_age),
                        !.years2 = DeclineYears2(in.age_start, in.years, in.accel_age),
                        !.output = apply_decline(in.value, in.age_start, in.years, in.rate_base,
                                                 in.rate_post, in.accel_age,
                                                 in.higher_is_better, in.use_absolute)]
    /\ UNCHANGED <<cfg, workbook, pc, err, rng, clients, corrVars, simVars, sheets, files, run,
                   firstFiles, printed, draw>>

\* the variables the round trip of one value leaves alone
pipelineVars == <<cfg, workbook, pc, err, clients, corrVars, simVars, sheets, files, run, firstFiles, printed, draw>>

\* the round trip of one value, first call: infer_true_from_observed as
\* simulate_client calls it
ProbeDenoise ==
    /\ probe.stage = "observed"
    /\ LET t == cfg.tests_order[1]
           r == infer_true_from_observed(t, probe.value, cfg.measurement_cv,
                                         cfg.measurement_lognormal, AllowNegative(cfg), rng)
       IN  /\ probe' = [probe EXCEPT !.stage = "true", !.value = r.v]
           /\ rng' = r.rng
    /\ UNCHANGED pipelineVars

\* second call: apply_decline over probe.years
ProbeDecline ==
    /\ probe.stage = "true"
    /\ LET t == cfg.tests_order[1]
       IN  probe' = [probe EXCEPT
                        !.stage = "projected",
                        !.value = apply_decline(probe.value, probe.age, probe.years,
                                                cfg.base_rate_per_decade[t],
                                                Get(cfg.post_rate_per_decade, t),
                                                Get(cfg.accelerate_from_age, t),
                                                t \in cfg.higher_is_better,
                                                t \in AbsoluteDecline(cfg))]
    /\ UNCHANGED <<rng, pipelineVars>>

\* third call: apply_measurement_noise
ProbeRenoise ==
    /\ probe.stage = "projected"
    /\ LET t == cfg.tests_order[1]
           r == apply_measurement_noise(t, probe.value, cfg.measurement_cv,
                                        cfg.measurement_lognormal, AllowNegative(cfg), rng)
       IN  /\ probe' = [probe EXCEPT !.stage = "renoised", !.value = r.v]
           /\ rng' = r.rng
    /\ UNCHANGED pipelineVars

\* ------------------------------------------------------------------------
\* Configurations and input workbooks
\* ------------------------------------------------------------------------

\* n / 100 in fixed point
Pct(n) == n * (SCALE \div 100)

\* largest number of clients in an input workbook
MaxClients == 2

\* largest n_sim
MaxSim == 2

\* a complete configuration over three tests
BaseCfg ==
    [missing |-> {},
     tests_order |-> <<"VO2 max", "HOMA-IR", "Processing Speed">>,
     higher_is_better |-> {"VO2 max", "Processing Speed"},
     lower_is_better |-> {"HOMA-IR"},
     cognitive_tests |-> {"Processing Speed"},
     absolute_decline_tests |-> {"Processing Speed"},
     allow_negative_tests |-> {"Processing Speed", "Sit and Reach"},
     base_rate_per_decade |->
         [t \in {"VO2 max", "HOMA-IR", "Processing Speed"} |->
             IF t = "VO2 max" THEN Pct(10) ELSE IF t = "HOMA-IR" THEN Pct(5) ELSE Pct(20)],
     post_rate_per_decade |-> [t \in {"VO2 max"} |-> Pct(15)],
     accelerate_from_age |-> [t \in {"VO2 max"} |-> 48],
     rate_uncertainty_cv |-> [t \in {"VO2 max", "HOMA-IR", "Processing Speed"} |-> Pct(20)],
     rate_lognormal |-> {"VO2 max"},
     measurement_cv |->
         [t \in {"VO2 max", "HOMA-IR", "Processing Speed"} |->
             IF t = "VO2 max" THEN Pct(5) ELSE Pct(10)],
     measurement_lognormal |-> {"HOMA-IR"},
     correlations |-> [tests |-> <<"VO2 max", "HOMA-IR">>,
                       pairs |-> << <<"VO2 max", "HOMA-IR", -Pct(50)>> >>],
     improvement |->
         [missing |-> {},
          vo2_age_cutoff |-> 50,
          vo2_under |-> <<Pct(10), Pct(20)>>,
          vo2_over |-> <<Pct(5), Pct(10)>>,
          homa_ir_reduction |-> [missing |-> {}, q10 |-> Pct(10), q90 |-> Pct(40),
                                 median |-> Pct(20), min |-> 0, max |-> SCALE],
          ranges |-> [t \in {"Processing Speed"} |-> <<Pct(10), Pct(30)>>]],
     practice_effect |-> [enabled |-> FALSE, year |-> 5, tests |-> {"Processing Speed"},
                          percent |-> Pct(10)],
     sanity_check |-> [enabled |-> FALSE, tolerance_abs |-> 0, tolerance_rel |-> 0],
     n_sim |-> MaxSim,
     seed |-> Some(1)]

Row(label, value) == [label |-> label, value |-> value]

\* the sheets an input workbook is made of
SheetFull ==
    [name |-> "Sheet1",
     rows |-> <<Row("Name", Text("Ann")), Row("Age", Num(45)), Row("VO2 max", Num(Pct(120))),
                Row("HOMA-IR", Num(Pct(80))), Row("Processing Speed", Num(-Pct(50)))>>]

SheetPartial ==
    [name |-> "Bob",
     rows |-> <<Row("Age", Num(62)), Row("VO2 Max (ml/kg/min)", Num(Pct(150))),
                Row("Fasting Glucose", Num(Pct(90))), Row("Processing Speed", Num(Pct(30)))>>]

SheetBlank ==
    [name |-> "Cy",
     rows |-> <<Row("Age", Num(45)), Row("VO2 max", Num(Pct(120))),
                Row("HOMA-IR", Text("")), Row("Notes", Text("n/a"))>>]

SheetNoAge ==
    [name |-> "Di",
     rows |-> <<Row("VO2 max", Num(Pct(100))), Row("Homa IR", Num(Pct(110))),
                Row("Processing Speed", Num(0))>>]

Sheets == {SheetFull, SheetPartial, SheetBlank, SheetNoAge}

\* every workbook of at most n sheets
WorkbooksUpTo(n) == UNION {[1..m -> Sheets] : m \in 0..n}

\* configurations that differ from BaseCfg in the seed, n_sim or the practice effect
GoodCfgs ==
    {[BaseCfg EXCEPT !.seed = sd, !.n_sim = ns, !.practice_effect.enabled = pe] :
        sd \in {None, Some(1), Some(2)}, ns \in 1..MaxSim, pe \in BOOLEAN}

\* configurations with a fatal error: a missing field or an invalid parameter
BadCfgs ==
    {[BaseCfg EXCEPT !.missing = {key}] :
        key \in {"tests_order", "correlations", "n_sim", "improvement", "decline"}}
    \cup {[BaseCfg EXCEPT !.improvement.missing = {key}] :
        key \in {"vo2_age_cutoff", "homa_ir_reduction", "ranges"}}
    \cup {[BaseCfg EXCEPT !.improvement.homa_ir_reduction.q10 = 0],
          [BaseCfg EXCEPT !.improvement.homa_ir_reduction.missing = {"median"}],
          [BaseCfg EXCEPT !.base_rate_per_decade["VO2 max"] = 0],
          [BaseCfg EXCEPT !.rate_uncertainty_cv = [t \in {"VO2 max"} |-> Pct(20)]],
          [BaseCfg EXCEPT !.correlations.pairs = << <<"VO2 max", "HOMA-IR", Pct(150)>> >>],
          [BaseCfg EXCEPT !.correlations.pairs = << <<"VO2 max", "FEV1", Pct(50)>> >>]}

\* ------------------------------------------------------------------------
\* Specifications
\* ------------------------------------------------------------------------

\* what a first execution starts from, whatever the config and input
FirstRun ==
    /\ Fresh
    /\ rng \in EntropyStates
    /\ run = 1
    /\ firstFiles = [files |-> files, err |-> "", rng |-> 0, workbook |-> <<>>]
    /\ probe = <<>>

\* the pipeline on complete and on broken configurations
Init ==
    /\ cfg \in GoodCfgs \cup BadCfgs
    /\ workbook \in WorkbooksUpTo(MaxClients)
    /\ FirstRun

Next ==
    \/ LoadAndSeed
    \/ ReadInput
    \/ BuildMatrix
    \/ TryEpsilon
    \/ CorrelationReturn
    \/ SimBegin
    \/ SimDraw
    \/ SimEnd
    \/ AppendSheet
    \/ WriteWorkbook

Spec == Init /\ [][Next]_vars

\* two executions of the pipeline on the same config and input
InitDet ==
    /\ cfg \in GoodCfgs
    /\ workbook \in UNION {[1..m -> {SheetFull, SheetNoAge}] : m \in 0..MaxClients}
    /\ FirstRun

NextDet == Next \/ Rerun

SpecDet == InitDet /\ [][NextDet]_vars

\* the sheets of the workbooks the pipeline is run on twice
IndepSheets == {SheetFull, SheetNoAge}

\* the pipeline is run again with the same config on another input workbook:
\* clients added, removed, changed or in another order
RerunOther ==
    /\ run = 1
    /\ pc \in {"done", "aborted"}
    /\ run' = 2
    /\ firstFiles' = [files |-> files, err |-> err, rng |-> rng, workbook |-> workbook]
    /\ workbook' \in UNION {[1..m -> IndepSheets] : m \in 1..MaxClients}
    /\ pc' = "start"
    /\ err' = ""
    /\ clients' = <<>>
    /\ corr' = <<>> /\ attempt' = 0 /\ corr_eps' = <<>> /\ L' = None /\ tried' = <<>>
    /\ scenario' = "" /\ ci' = 0 /\ k' = 0
    /\ sums5' = <<>> /\ sums10' = <<>> /\ mean5' = <<>> /\ mean10' = <<>> /\ trace' = {}
    /\ sheets' = <<>>
    /\ printed' = <<>>
    /\ draw' = <<>>
    /\ files' = [decline |-> None, improvement |-> None]
    /\ rng' \in EntropyStates
    /\ UNCHANGED <<cfg, probe>>

\* the pipeline on one workbook and then, with the same seeded config, on another
InitIndep ==
    /\ \E ns \in 1..MaxSim : cfg = [BaseCfg EXCEPT !.n_sim = ns]
    /\ workbook \in UNION {[1..m -> IndepSheets] : m \in 1..MaxClients}
    /\ FirstRun

NextIndep == Next \/ RerunOther

SpecIndep == InitIndep /\ [][NextIndep]_vars

\* the pipeline is run again on the same input with the sanity check switched:
\* enabled if it was disabled, disabled if it was enabled
RerunToggled ==
    /\ run = 1
    /\ pc \in {"done", "aborted"}
    /\ run' = 2
    /\ firstFiles' = [files |-> files, err |-> err, rng |-> rng, workbook |-> workbook]
    /\ cfg' = [cfg EXCEPT !.sanity_check.enabled = ~@]
    /\ pc' = "start"
    /\ err' = ""
    /\ clients' = <<>>
    /\ corr' = <<>> /\ attempt' = 0 /\ corr_eps' = <<>> /\ L' = None /\ tried' = <<>>
    /\ scenario' = "" /\ ci' = 0 /\ k' = 0
    /\ sums5' = <<>> /\ sums10' = <<>> /\ mean5' = <<>> /\ mean10' = <<>> /\ trace' = {}
    /\ sheets' = <<>>
    /\ printed' = <<>>
    /\ draw' = <<>>
    /\ files' = [decline |-> None, improvement |-> None]
    /\ rng' \in EntropyStates
    /\ UNCHANGED <<workbook, probe>>

\* the seeded pipeline with the sanity check enabled or disabled, with
\* tolerance 0 or 0.02, with and without the practice effect, and then again
\* with the check switched
InitDiag ==
    /\ \E ns \in 1..MaxSim, on \in BOOLEAN, tol \in {0, Pct(2)}, pe \in BOOLEAN :
          cfg = [BaseCfg EXCEPT !.n_sim = ns, !.practice_effect.enabled = pe,
                                !.sanity_check = [enabled |-> on, tolerance_abs |-> tol,
                                                  tolerance_rel |-> 0]]
    /\ workbook \in UNION {[1..m -> IndepSheets] : m \in 0..MaxClients}
    /\ FirstRun

NextDiag == Next \/ RerunToggled

SpecDiag == InitDiag /\ [][NextDiag]_vars

\* the pipeline with rate uncertainty 0.2 and 0.8, and with the practice
\* effect disabled or set to year 5 or 10 for an absolute and a relative test
InitDraw ==
    /\ \E ns \in 1..MaxSim, cv \in {Pct(20), Pct(80)}, pe \in {0, 5, 10} :
          cfg = [BaseCfg EXCEPT
                    !.n_sim = ns,
                    !.rate_uncertainty_cv = [t \in DOMAIN @ |-> cv],
                    !.practice_effect = [enabled |-> pe # 0, year |-> IF pe = 0 THEN 5 ELSE pe,
                                         tests |-> {"VO2 max", "Processing Speed"},
                                         percent |-> Pct(10)]]
    /\ workbook \in UNION {[1..m -> IndepSheets] : m \in 0..MaxClients}
    /\ FirstRun

SpecDraw == InitDraw /\ [][Next]_vars

\* a client whose name is long and holds characters a sheet name cannot
SheetLong ==
    [name |-> "Eve",
     rows |-> <<Row("Name", Text("Eve [2024/05]: baseline re-test results")),
                Row("Age", Num(62)), Row("VO2 max", Num(Pct(150)))>>]

\* the pipeline on workbooks whose clients have short and long names, with
\* and without an age
InitSheets ==
    /\ cfg = [BaseCfg EXCEPT !.n_sim = 1]
    /\ workbook \in UNION {[1..m -> {SheetFull, SheetNoAge, SheetLong}] : m \in 0..MaxClients}
    /\ FirstRun

SpecSheets == InitSheets /\ [][Next]_vars

\* the pipeline at rest while a function is applied on its own
Idle ==
    /\ cfg = BaseCfg
    /\ workbook = <<>>
    /\ Fresh
    /\ rng \in EntropyStates
    /\ run = 1
    /\ firstFiles = [files |-> files, err |-> "", rng |-> 0, workbook |-> <<>>]

\* longest raw sheet name
MaxNameLen == 33

\* the characters of the raw sheet names
NameChars == <<"a", "[", "b", "]", ":", "_", "*", "?", " ", "/", "\\">>

\* the raw name of length n whose i-th character is NameChars[(a * i + b) mod 11]
PatternName(n, a, b) == [i \in 1..n |-> NameChars[((a * i + b) % Len(NameChars)) + 1]]

\* the raw sheet names: every length up to MaxNameLen, constant and varying patterns
NameInputs == {PatternName(n, a, b) : n \in 0..MaxNameLen, a \in {0, 1, 4}, b \in {0, 1, 5, 10}}

InitNames ==
    /\ Idle
    /\ \E x \in NameInputs : probe = [stage |-> "name", input |-> x, output |-> <<>>]

SpecNames == InitNames /\ [][ProbeSanitize]_vars

\* widest row handed to write_sheet_xml
MaxCols == 28

\* the cells of the rows handed to write_sheet_xml
SheetCells ==
    <<CText(<<"V", "O", "2">>), CNone, CNum(250000000), CBool(TRUE), CInt(45), CText(<<>>),
      CNum(-1234), CText(<<"a", "&", "b">>), CBool(FALSE), CInt(0), CNum(0)>>

\* the row of n cells whose i-th cell is SheetCells[(a * i + b) mod 11]
PatternRow(n, a, b) == [i \in 1..n |-> SheetCells[((a * i + b) % Len(SheetCells)) + 1]]

\* the rows of one sheet: every width up to MaxCols, alone, first and second
RowInputs ==
    LET one == {PatternRow(n, a, b) : n \in 0..MaxCols, a \in {0, 1, 3}, b \in {0, 1, 2, 4}}
        other == PatternRow(3, 1, 1)
    IN  {<<>>} \cup {<<r>> : r \in one} \cup {<<r, other>> : r \in one}
               \cup {<<other, r, other>> : r \in one}

InitSheetXml ==
    /\ Idle
    /\ \E x \in RowInputs : probe = [stage |-> "rows", input |-> x, output |-> <<>>]

SpecSheetXml == InitSheetXml /\ [][ProbeWriteSheet]_vars

\* most sheets handed to write_xlsx
MaxSheets == 2

\* a row of a label and a value
LabelRow(label, value) == <<CText(Chars(label)), value>>

\* the (name, rows) pairs handed to write_xlsx: a client sheet; special
\* characters in the name and the texts; no rows; rows without a label, with
\* a repeated label, with one cell and with none; a tab in the name and a
\* carriage return in a label; a form feed in a text
CodecSheets ==
    {<<Chars("Di"), <<LabelRow("Age", CInt(45)), LabelRow("VO2 max", CNum(Pct(120))),
                      LabelRow("Name", CText(Chars("Ann")))>> >>,
     <<Chars("Q&A <1>"), <<LabelRow("a&b", CText(Chars("x<y>'\"q"))),
                           LabelRow("HOMA-IR", CNum(-1234))>> >>,
     <<Chars("Cy"), <<>> >>,
     <<Chars("Bob"), << <<CNone, CNum(SCALE)>>, LabelRow("", CInt(2)),
                        LabelRow("Name", CText(Chars("  "))), LabelRow("VO2 max", CText(Chars("n/a"))),
                        LabelRow("VO2 max", CNum(3 * SCALE)), <<>>, <<CText(Chars("Notes"))>> >> >>,
     <<Chars("S\tx"), <<LabelRow("a\rb", CNum(SCALE))>> >>,
     <<Chars("Ann"), <<LabelRow("Notes", CText(Chars("p\fq")))>> >>}

\* the lists of sheets handed to write_xlsx
CodecInputs == UNION {[1..m -> CodecSheets] : m \in 0..MaxSheets}

\* the archive z without the members named
Without(z, names) == [path \in DOMAIN z \ names |-> z[path]]

\* a workbook as a spreadsheet program saves it: labels through the shared
\* strings, one label inline, plain values, and a second sheet without rows
ExcelBook ==
    (ContentTypesXml :> << <<"/">> \o WorkbookXml >>)
    @@ (WorkbookXml :>
          <<[name |-> Chars("Sheet1"), sheetId |-> <<"1">>, rid |-> RelId(1)],
            [name |-> Chars("Cy"), sheetId |-> <<"2">>, rid |-> RelId(2)]>>)
    @@ (WorkbookRels :>
          <<Relationship(RelId(3), "styles", <<"styles.xml">>),
            Relationship(RelId(1), "worksheet", SheetTarget(1)),
            Relationship(RelId(2), "worksheet", SheetTarget(2)),
            Relationship(RelId(4), "sharedStrings", <<"sharedStrings.xml">>)>>)
    @@ (SharedStringsXml :> <<Chars("Age"), Chars("VO2 max"), Chars("Name"), Chars("Ann")>>)
    @@ (StylesXml :> <<"styleSheet">>)
    @@ ((<<"xl/">> \o SheetTarget(1)) :>
          <<[r |-> <<"1">>,
             cells |-> <<CellElement(<<"A", "1">>, "s", Some(<<"0">>), None),
                         CellElement(<<"B", "1">>, "", Some(<<"4", "5">>), None)>>],
            [r |-> <<"2">>,
             cells |-> <<CellElement(<<"A", "2">>, "s", Some(<<"1">>), None),
                         CellElement(<<"B", "2">>, "", Some(<<"1", ".", "2">>), None)>>],
            [r |-> <<"3">>,
             cells |-> <<CellElement(<<"A", "3">>, "s", Some(<<"2">>), None),
                         CellElement(<<"B", "3">>, "s", Some(<<"3">>), None)>>],
            [r |-> <<"4">>,
             cells |-> <<CellElement(<<"A", "4">>, "inlineStr", None, Some(Some(Chars("HOMA-IR")))),
                         CellElement(<<"B", "4">>, "str", Some(<<"0", ".", "8">>), None)>>]>>)
    @@ ((<<"xl/">> \o SheetTarget(2)) :> <<>>)

\* the archives handed to read_input_clients as they are: ExcelBook and a
\* written workbook, whole and without one or two of their members, and
\* ExcelBook with a sheet whose relationship is missing
InputArchives ==
    LET whole == {ExcelBook} \cup {write_xlsx(x) : x \in [1..1 -> CodecSheets]}
        gone == {{}, {WorkbookXml}, {WorkbookRels}, {WorkbookXml, WorkbookRels},
                 {SharedStringsXml}, {StylesXml, ContentTypesXml},
                 {<<"xl/">> \o SheetTarget(1)}}
    IN  {Without(z, names) : z \in whole, names \in gone}
        \cup {[ExcelBook EXCEPT ![WorkbookRels] = SubSeq(ExcelBook[WorkbookRels], 1, 2)]}

InitCodec ==
    /\ Idle
    /\ \/ \E x \in CodecInputs :
             probe = [stage |-> "sheets", origin |-> "written", input |-> x, archive |-> <<>>,
                      output |-> <<>>]
       \/ \E z \in InputArchives :
             probe = [stage |-> "archive", origin |-> "given", input |-> <<>>, archive |-> z,
                      output |-> <<>>]

NextCodec == ProbeWriteXlsx \/ ProbeReadXlsx

SpecCodec == InitCodec /\ [][NextCodec]_vars

\* most rows of a sheet of labels
MaxRows == 2

\* the label and value rows a sheet is drawn from: reserved labels with
\* usable and unusable values, a reserved label in lower case, test labels
\* in another case, with a unit and with blanks around them, the label that is
\* recognized and dropped, and labels that name no test
LabelInputs ==
    {LabelRow("Age", CInt(45)), LabelRow("Age", CText(Chars("n/a"))),
     LabelRow("Name", CText(Chars("Ann"))), LabelRow("Name", CText(Chars("  "))),
     LabelRow("age", CInt(45)),
     LabelRow("VO2 max", CNum(Pct(120))), LabelRow("VO2 Max (ml/kg/min)", CNum(Pct(150))),
     LabelRow("VO2", CNum(Pct(120))), LabelRow("My VO2 max", CNum(Pct(120))),
     LabelRow("  homa-ir ", CNum(Pct(80))), LabelRow("Homa IR", CText(Chars("n/a"))),
     LabelRow("HbA1c (%)", CNum(Pct(550))),
     LabelRow("Fasting Glucose", CNum(Pct(90))), LabelRow("Notes", CText(Chars("n/a")))}

\* one sheet of at most MaxRows rows of labels is written and read back
InitLabels ==
    /\ Idle
    /\ \E rows \in UNION {[1..m -> LabelInputs] : m \in 0..MaxRows} :
          probe = [stage |-> "sheets", origin |-> "labels",
                   input |-> << <<Chars("Sheet1"), rows>> >>, archive |-> <<>>,
                   output |-> <<>>]

SpecLabels == InitLabels /\ [][NextCodec]_vars

\* tolerance_abs and tolerance_rel of the sanity check: none, 0.05 alone,
\* 0.05 with 10 % and 0.2 with 10 %
SanityTolerances == {<<0, 0>>, <<Pct(5), 0>>, <<Pct(5), Pct(10)>>, <<Pct(20), Pct(10)>>}

\* the differences between a mean and the baseline: plus and minus each
\* tolerance the check can compute, exactly and one unit beyond
SanityDeltas ==
    {sg * (v + u) : sg \in {1, -1}, v \in {0, Pct(5), Pct(12), Pct(20)}, u \in {0, 1}}

\* the configuration of a sanity check over VO2 max, of the direction given,
\* and HOMA-IR, lower is better
SanityCfg(dir, tolerance, enabled) ==
    [BaseCfg EXCEPT
        !.tests_order = <<"VO2 max", "HOMA-IR">>,
        !.higher_is_better = IF dir = "higher" THEN {"VO2 max"} ELSE {},
        !.lower_is_better = IF dir = "lower" THEN {"VO2 max", "HOMA-IR"} ELSE {"HOMA-IR"},
        !.sanity_check = [enabled |-> enabled, tolerance_abs |-> tolerance[1],
                          tolerance_rel |-> tolerance[2]]]

\* the sanity check on one client: VO2 max without a baseline, with one that
\* did not parse, or with 1.2, -1.2 or 0, and means around it; HOMA-IR 0.8
\* with means 0.8 and 0.7
InitSanity ==
    /\ \E dir \in {"higher", "lower", "none"}, tolerance \in SanityTolerances,
          enabled \in BOOLEAN :
            /\ cfg = SanityCfg(dir, tolerance, enabled)
            /\ ~enabled => tolerance = <<0, 0>>
    /\ workbook = <<>>
    /\ Fresh
    /\ rng \in EntropyStates
    /\ run = 1
    /\ firstFiles = [files |-> files, err |-> "", rng |-> 0, workbook |-> <<>>]
    /\ \E base \in {<<>>, <<None>>, <<Some(Pct(120))>>, <<Some(-Pct(120))>>, <<Some(0)>>},
          d5 \in {<<>>} \cup {<<d>> : d \in SanityDeltas},
          d10 \in {<<>>, <<0>>, <<Pct(12)>>, <<Pct(12) + 1>>, <<-Pct(20) - 1>>} :
            LET b == IF base = <<>> \/ base[1] = None THEN 0 ELSE base[1][1]
                homa == "HOMA-IR" :> Some(Pct(80))
            IN  probe = [stage |-> "means",
                         client |-> [sheet_name |-> "Sheet1", name |-> "Ann", age |-> Some(45),
                                     data |-> IF base = <<>> THEN homa
                                              ELSE ("VO2 max" :> base[1]) @@ homa],
                         mean5 |-> (IF d5 = <<>> THEN <<>> ELSE "VO2 max" :> (b + d5[1]))
                                   @@ ("HOMA-IR" :> Pct(80)),
                         mean10 |-> (IF d10 = <<>> THEN <<>> ELSE "VO2 max" :> (b + d10[1]))
                                    @@ ("HOMA-IR" :> Pct(70)),
                         output |-> <<>>]

SpecSanity == InitSanity /\ [][ProbeSanity]_vars

\* longest list of correlation pairs
MaxPairs == 2

\* the tests of the correlation matrix in the correlation runs
CorrTests == <<"VO2 max", "HOMA-IR", "Processing Speed">>

\* the correlations a pair can carry: 0.6, -0.8 and 1.00005
CorrValues == {Pct(60), -Pct(80), SCALE + 5000}

\* the positions a pair can name: both orders of one pair of tests, two more
\* pairs, and one test paired with itself
CorrPositions == {<<1, 2>>, <<2, 1>>, <<1, 3>>, <<2, 3>>, <<1, 1>>}

\* one (testA, testB, value) entry
PairChoices ==
    {<<CorrTests[p[1]], CorrTests[p[2]], v>> : p \in CorrPositions, v \in {Pct(60), -Pct(80)}}
    \cup {<<CorrTests[1], CorrTests[2], v>> : v \in CorrValues}

\* the correlation specifications: every list of at most MaxPairs pairs
PairLists == UNION {[1..m -> PairChoices] : m \in 0..MaxPairs}

CorrCfg(pairs) ==
    [BaseCfg EXCEPT !.correlations = [tests |-> CorrTests, pairs |-> pairs], !.n_sim = 1]

\* the pipeline over the correlation specifications: without clients for
\* every list, with one client for the lists of at most one pair
InitCorr ==
    /\ \/ \E pl \in PairLists : cfg = CorrCfg(pl) /\ workbook = <<>>
       \/ \E pl \in PairLists : Len(pl) <= 1 /\ cfg = CorrCfg(pl) /\ workbook = <<SheetFull>>
    /\ FirstRun

SpecCorr == InitCorr /\ [][Next]_vars

\* the empty dict
EmptyMap == [x \in {} |-> 0]

\* a configuration of one test t with measurement CV 0 and rate CV 0:
\* direction, absolute or relative decline, noise model, negatives allowed,
\* acceleration age and post rate, practice year (0: disabled), rate model
MonoCfg(t, hib, absolute, mlog, neg, acc, post, pe, rlog, rate) ==
    [BaseCfg EXCEPT
        !.tests_order = <<t>>,
        !.higher_is_better = IF hib THEN {t} ELSE {},
        !.lower_is_better = IF hib THEN {} ELSE {t},
        !.cognitive_tests = {},
        !.absolute_decline_tests = IF absolute THEN {t} ELSE {},
        !.allow_negative_tests = IF neg THEN {t} ELSE {},
        !.base_rate_per_decade = [x \in {t} |-> rate],
        !.post_rate_per_decade = IF post = None THEN EmptyMap ELSE [x \in {t} |-> post[1]],
        !.accelerate_from_age = IF acc = None THEN EmptyMap ELSE [x \in {t} |-> acc[1]],
        !.rate_uncertainty_cv = [x \in {t} |-> 0],
        !.rate_lognormal = IF rlog THEN {t} ELSE {},
        !.measurement_cv = [x \in {t} |-> 0],
        !.measurement_lognormal = IF mlog THEN {t} ELSE {},
        !.correlations = [tests |-> <<t>>, pairs |-> <<>>],
        !.practice_effect = [enabled |-> pe # 0, year |-> IF pe = 0 THEN 5 ELSE pe,
                             tests |-> {t}, percent |-> Pct(10)]]

\* the tests of the one-test configurations
MonoTests == {"VO2 max", "Processing Speed"}

\* acceleration age and post rate: none, 48 without and with a post rate, 40
MonoSegments == {<<None, None>>, <<Some(48), None>>, <<Some(48), Some(Pct(30))>>,
                 <<Some(40), Some(Pct(30))>>}

\* rate model and base rate per decade: normal 0 and 0.9, lognormal 0.1
MonoRates == {<<FALSE, 0>>, <<TRUE, Pct(10)>>, <<FALSE, Pct(90)>>}

\* baseline and age of the client: -1.5, 0 and 1.2 at 45, 1.2 without an age
MonoClients == {<<-Pct(150), Some(45)>>, <<0, Some(45)>>, <<Pct(120), Some(45)>>,
                <<Pct(120), None>>}

\* the baselines: -1.5, 0 and 1.2
MonoBaselines == {-Pct(150), 0, Pct(120)}

\* a sheet with one baseline, with or without an age
MonoSheet(t, b, age) ==
    [name |-> "Sheet1",
     rows |-> (IF age = None THEN <<>> ELSE <<Row("Age", Num(age[1]))>>) \o <<Row(t, Num(b))>>]

\* the pipeline on one client and one test without measurement noise and
\* without rate uncertainty
InitMono ==
    /\ \E t \in MonoTests, hib \in BOOLEAN, absolute \in BOOLEAN, mlog \in BOOLEAN,
          neg \in BOOLEAN, seg \in MonoSegments, pe \in {0, 5, 10}, rt \in MonoRates,
          cl \in MonoClients :
            /\ cfg = MonoCfg(t, hib, absolute, mlog, neg, seg[1], seg[2], pe, rt[1], rt[2])
            /\ workbook = <<MonoSheet(t, cl[1], cl[2])>>
    /\ FirstRun

SpecMono == InitMono /\ [][Next]_vars

\* the pipeline on one client and one test with measurement CV 0 or 0.5, the
\* test in or out of allow_negative_tests and of measurement_lognormal
InitClamp ==
    /\ \E t \in MonoTests, hib \in BOOLEAN, absolute \in BOOLEAN, mlog \in BOOLEAN,
          neg \in BOOLEAN, mcv \in {0, Pct(50)}, ns \in 1..MaxSim, b \in MonoBaselines :
            /\ cfg = [MonoCfg(t, hib, absolute, mlog, neg, None, None, 0, FALSE, Pct(10))
                         EXCEPT !.n_sim = ns, !.measurement_cv = [x \in {t} |-> mcv]]
            /\ workbook = <<MonoSheet(t, b, Some(45))>>
    /\ FirstRun

SpecClamp == InitClamp /\ [][Next]_vars

\* the pipeline with every n_sim from -1 to MaxSim
InitAccum ==
    /\ \E ns \in -1..MaxSim : cfg = [BaseCfg EXCEPT !.n_sim = ns]
    /\ workbook \in UNION {[1..m -> IndepSheets] : m \in 0..MaxClients}
    /\ FirstRun

SpecAccum == InitAccum /\ [][Next]_vars

\* where a test is listed: in higher_is_better, in lower_is_better, in neither
Listings == {"higher", "lower", "neither"}

\* the pipeline on one client and one test, listed in one of the direction
\* lists or in neither, without measurement noise and rate uncertainty
InitDirection ==
    /\ \E t \in MonoTests, listing \in Listings, absolute \in BOOLEAN, ns \in 1..MaxSim,
          cl \in MonoClients :
            /\ cfg = [MonoCfg(t, listing = "higher", absolute, FALSE, TRUE, None, None, 0,
                              FALSE, Pct(10))
                         EXCEPT !.n_sim = ns,
                                !.lower_is_better = IF listing = "lower" THEN {t} ELSE {}]
            /\ workbook = <<MonoSheet(t, cl[1], cl[2])>>
    /\ FirstRun

SpecDirection == InitDirection /\ [][Next]_vars

\* acceleration age and post rate: none, and 0.3 per decade from age 50
SanitySegments == {<<None, None>>, <<Some(50), Some(Pct(30))>>}

\* the pipeline on one client and one test without noise, with the sanity
\* check disabled, enabled without tolerance and enabled with tolerance 0.02
InitSanityRun ==
    /\ \E t \in MonoTests, hib \in BOOLEAN, seg \in SanitySegments, pe \in {0, 5},
          rt \in MonoRates, cl \in MonoClients,
          sanity \in {<<FALSE, 0>>, <<TRUE, 0>>, <<TRUE, Pct(2)>>} :
            /\ cfg = [MonoCfg(t, hib, FALSE, FALSE, FALSE, seg[1], seg[2], pe, rt[1], rt[2])
                        EXCEPT !.sanity_check = [enabled |-> sanity[1],
                                                 tolerance_abs |-> sanity[2],
                                                 tolerance_rel |-> 0]]
            /\ workbook = <<MonoSheet(t, cl[1], cl[2])>>
    /\ FirstRun

SpecSanityRun == InitSanityRun /\ [][Next]_vars

\* the arguments of apply_decline: values -1.5, 0 and 1.2; start ages below,
\* at and above the acceleration age 48; horizons -1, 0, 4, 5, 9 and 10; with
\* and without an acceleration age and a post rate
DeclineInputs ==
    [value : MonoBaselines, age_start : {0, 40, 44, 48, 50}, years : {-1, 0, 4, 5, 9, 10},
     rate_base : {Pct(10)}, rate_post : {None, Some(Pct(30))}, accel_age : {None, Some(48)},
     higher_is_better : BOOLEAN, use_absolute : BOOLEAN]

InitDecline ==
    /\ Idle
    /\ \E x \in DeclineInputs :
          probe = [stage |-> "decline_in", input |-> x, years1 |-> 0, years2 |-> 0, output |-> 0]

SpecDecline == InitDecline /\ [][ProbeSplit]_vars

\* the round trip of one observed value through de-noise, a horizon of
\* years <= 0 and re-noise, with measurement CV 0
InitProbe ==
    /\ \E t \in MonoTests, hib \in BOOLEAN, absolute \in BOOLEAN, mlog \in BOOLEAN,
          neg \in BOOLEAN, seg \in MonoSegments, rt \in MonoRates :
            cfg = MonoCfg(t, hib, absolute, mlog, neg, seg[1], seg[2], 0, rt[1], rt[2])
    /\ workbook = <<>>
    /\ Fresh
    /\ rng \in EntropyStates
    /\ run = 1
    /\ firstFiles = [files |-> files, err |-> "", rng |-> 0, workbook |-> <<>>]
    /\ \E b \in MonoBaselines, y \in {0, -1}, age \in {0, 45} :
            probe = [stage |-> "observed", baseline |-> b, value |-> b, years |-> y, age |-> age]

NextProbe ==
    \/ ProbeDenoise
    \/ ProbeDecline
    \/ ProbeRenoise

SpecProbe == InitProbe /\ [][NextProbe]_vars

\* ------------------------------------------------------------------------
\* Properties
\* ------------------------------------------------------------------------

\* the client being simulated has no baseline for test t: the label is not
\* on its sheet, or its value did not parse
NoBaseline(t) == t \notin DOMAIN clients[ci].data \/ clients[ci].data[t] = None

\* C1: a client without a baseline for a test has that test skipped: no
\* de-noise, decline or re-noise is performed for it, its output row has no
\* Year 5 / Year 10 mean, and the run does not fail.
C1_MissingBaselineSkipped ==
    /\ pc \in {"draw", "append"} =>
          \A t \in TestSet(cfg) : NoBaseline(t) =>
              \A op \in {"denoise", "decline", "renoise"} : <<t, op>> \notin trace
    /\ pc = "append" =>
          \A i \in 1..Len(cfg.tests_order) : NoBaseline(cfg.tests_order[i]) =>
              LET row == build_sheet_rows(clients[ci], mean5, mean10, cfg.tests_order)[i + 1]
              IN  row[3] = Text("") /\ row[4] = Text("")
    /\ pc = "aborted" => err # "TypeError"

\* C2: when main aborts with a fatal configuration error, no output workbook
\* has been written, whichever phase raised the error.
C2_NoWorkbookOnAbort ==
    (pc = "aborted" /\ err \in {"KeyError", "ValueError", "RuntimeError"}) =>
        (files.decline = None /\ files.improvement = None)

\* C10: two runs with the same seed, config and input clients leave the
\* generator in the same state and write the same workbooks, cell for cell.
C10_SameSeedSameOutput ==
    (run = 2 /\ pc \in {"done", "aborted"} /\ cfg.seed # None) =>
        (files = firstFiles.files /\ err = firstFiles.err /\ rng = firstFiles.rng)

\* a seeded second run has written both workbooks for at least one client
C10_Witness ==
    /\ run = 2 /\ pc = "done" /\ cfg.seed # None
    /\ Len(clients) > 0
    /\ files.improvement # None

\* s is an initial segment of t
IsPrefix(s, t) == Len(s) <= Len(t) /\ \A i \in 1..Len(s) : s[i] = t[i]

\* the attempts before attempt i all failed
EarlierFailed(i) == \A h \in 1..(i - 1) : cholesky(Inflate(corr, tried[h])) = None

\* C3: build_correlation tries eps = 0, 1e-8, 1e-6, 1e-5, 1e-4, 1e-3, 1e-2 in
\* that order, returns the factor of the first epsilon that succeeds and tries
\* none after it; when all seven fail it raises and no simulation step runs
\* without a factor.
C3_EpsilonLoop ==
    /\ IsPrefix(tried, <<0, 1, 100, 1000, 10000, 100000, 1000000>>)
    /\ pc = "corr_try" => (L = None /\ EarlierFailed(Len(tried) + 1))
    /\ (pc = "corr_end" /\ L # None) =>
          (L = cholesky(Inflate(corr, tried[Len(tried)])) /\ EarlierFailed(Len(tried)))
    /\ (pc = "corr_end" /\ L = None) => (Len(tried) = 7 /\ EarlierFailed(8))
    /\ (pc = "aborted" /\ err = "RuntimeError") => (L = None /\ Len(tried) = 7)
    /\ pc \in {"client", "draw", "append", "done"} => L # None

\* the factor is returned at the fifth attempt, after four failures
C3_Witness == pc = "client" /\ L # None /\ Len(tried) = 5

\* the pairs of the configuration and the positions they name
CPairs == cfg.correlations.pairs

PairRow(p) == IndexOf(cfg.correlations.tests, CPairs[p][1])

PairCol(p) == IndexOf(cfg.correlations.tests, CPairs[p][2])

\* pair p names position (i, j) or its mirror
Names(p, i, j) ==
    (PairRow(p) = i /\ PairCol(p) = j) \/ (PairRow(p) = j /\ PairCol(p) = i)

Symmetric(m) == \A i, j \in 1..Len(m) : m[i][j] = m[j][i]

MatrixBuilt == pc \in {"corr_try", "corr_end"}

C5_InflationOnlyOnDiagonal ==
    (MatrixBuilt /\ tried # <<>>) =>
        /\ \A i, j \in 1..Len(corr) :
              corr_eps[i][j] = corr[i][j] + (IF i = j THEN tried[Len(tried)] ELSE 0)
        /\ Len(tried) > 1 => tried[Len(tried)] > 0
        /\ corr = CorrMatrix(cfg.correlations.tests, CPairs)

\* a third attempt has been made on a matrix with a non-zero off-diagonal entry
C5_Witness ==
    /\ MatrixBuilt /\ Len(tried) >= 3
    /\ \E i, j \in 1..Len(corr) : i # j /\ corr[i][j] # 0

\* entry (i, j) of m times its transpose
RECURSIVE GramEntry(_, _, _, _)
GramEntry(m, i, j, kk) ==
    IF kk = 0 THEN 0 ELSE GramEntry(m, i, j, kk - 1) + Mul(m[i][kk], m[j][kk])

\* every pair carries a correlation of magnitude below 1
AllBelowOne == \A p \in 1..Len(CPairs) : Abs(CPairs[p][3]) < SCALE

\* C6: for |correlation| < 1 on all pairs, the returned factor is lower
\* triangular with a strictly positive diagonal, and the factor times its
\* transpose reconstructs the (inflated) matrix entry by entry within 1e-6.
C6_FactorReconstructs ==
    (pc \in {"corr_end", "client", "draw", "append", "done"} /\ L # None /\ AllBelowOne) =>
        LET F == L[1]
            n == Len(F)
        IN  /\ \A i, j \in 1..n : j > i => F[i][j] = 0
            /\ \A i \in 1..n : F[i][i] > 0
            /\ \A i, j \in 1..n : Abs(GramEntry(F, i, j, n) - corr_eps[i][j]) <= 100

\* a factor of a matrix with two non-zero off-diagonal entries in one column,
\* returned after a retry
C6_Witness ==
    /\ pc = "corr_end" /\ L # None /\ AllBelowOne
    /\ Len(tried) >= 2
    /\ corr[2][1] # 0 /\ corr[3][1] # 0

\* measurement CV 0 and rate-uncertainty CV 0 for every test
ZeroCV ==
    \A t \in TestSet(cfg) : cfg.measurement_cv[t] = 0 /\ cfg.rate_uncertainty_cv[t] = 0

\* simulate_client has returned the means of the client for scenario scen
MeansOf(scen) == pc = "append" /\ scenario = scen /\ ZeroCV

\* the baseline the client's sheet carries for test t
Baseline(t) == clients[ci].data[t][1]

\* values that do not increase, values that do not decrease
NonIncreasing(a, b, c) == c <= b /\ b <= a

NonDecreasing(a, b, c) == c >= b /\ b >= a

PracticeApplies(t) ==
    /\ cfg.practice_effect.enabled
    /\ cfg.practice_effect.year \in {5, 10}
    /\ t \in cfg.practice_effect.tests

\* de-noising leaves the baseline of test t alone: it is not negative, or the
\* test has additive noise and may be negative
BaselineKept(t) ==
    Baseline(t) >= 0 \/ (t \notin cfg.measurement_lognormal /\ t \in AllowNegative(cfg))

\* the decline rates of test t lie in [0, 1)
RatesInUnit(t) ==
    /\ cfg.base_rate_per_decade[t] >= 0 /\ cfg.base_rate_per_decade[t] < SCALE
    /\ t \in DOMAIN cfg.post_rate_per_decade =>
          (cfg.post_rate_per_decade[t] >= 0 /\ cfg.post_rate_per_decade[t] < SCALE)

C8_ImprovementMonotonic ==
    MeansOf("improvement") =>
        \A t \in TestSet(cfg) :
            /\ t \in cfg.higher_is_better => NonDecreasing(Baseline(t), mean5[t], mean10[t])
            /\ t \in cfg.lower_is_better => NonIncreasing(Baseline(t), mean5[t], mean10[t])

\* the round trip of probe.baseline has made its three calls
RoundTripDone == probe # <<>> /\ probe.stage = "renoised" /\ probe.years <= 0 /\ ZeroCV

\* the noise model and the sign rule of the probed test
ProbeLognormal == cfg.tests_order[1] \in cfg.measurement_lognormal

ProbeAllowsNegative == cfg.tests_order[1] \in AllowNegative(cfg)

C11_ClientIndependent ==
    (run = 2 /\ pc = "done" /\ firstFiles.err = "" /\ cfg.seed # None) =>
        \A s \in {"decline", "improvement"} :
            \A i \in 1..Len(workbook), j \in 1..Len(firstFiles.workbook) :
                workbook[i] = firstFiles.workbook[j] =>
                    files[s][1][i].rows = firstFiles.files[s][1][j].rows

\* character c as sanitize_sheet_name leaves it
Substituted(c) == IF c \in InvalidChars THEN "_" ELSE c

\* the first 31 characters of x, each substituted
Expected31(x) == [i \in 1..Min(Len(x), 31) |-> Substituted(x[i])]

\* C17: the sanitized name has at most 31 characters, none of [ ] : * ? / \,
\* is the first 31 characters of the input with those characters replaced by _,
\* is left alone by a second application, and is shared by every input that
\* agrees with this one after substitution on the first 31 characters.
C17_SanitizedName ==
    (probe # <<>> /\ probe.stage = "sanitized") =>
        /\ Len(probe.output) <= 31
        /\ \A i \in 1..Len(probe.output) : probe.output[i] \notin InvalidChars
        /\ probe.output = Expected31(probe.input)
        /\ sanitize_sheet_name(probe.output) = probe.output
        /\ \A y \in NameInputs :
              Expected31(y) = Expected31(probe.input) => sanitize_sheet_name(y) = probe.output

\* a name longer than 31 characters with invalid characters was cut and
\* rewritten, and another input shares the result
C17_Witness ==
    /\ probe # <<>> /\ probe.stage = "sanitized"
    /\ Len(probe.input) > 31 /\ Len(probe.output) = 31
    /\ \E i \in 1..31 : probe.input[i] \in InvalidChars /\ probe.output[i] = "_"
    /\ \E y \in NameInputs : y # probe.input /\ sanitize_sheet_name(y) = probe.output

\* the number a column name denotes in bijective base 26: A = 1, ..., Z = 26
RECURSIVE LetterValue(_)
LetterValue(name) ==
    IF name = <<>> THEN 0
    ELSE 26 * LetterValue(SubSeq(name, 1, Len(name) - 1))
         + (CHOOSE q \in 1..26 : LETTERS[q] = name[Len(name)])

\* the 0-based columns of a row whose cell is not None, in ascending order
RECURSIVE Present(_, _)
Present(row, c) ==
    IF c >= Len(row) THEN <<>>
    ELSE (IF row[c + 1] = CNone THEN <<>> ELSE <<c>>) \o Present(row, c + 1)

\* the digits of a cell reference
RefDigits(ref) == SelectSeq(ref, LAMBDA ch : ch \in {DIGITS[q] : q \in 1..10})

\* C16: write_sheet_xml numbers the rows 1, 2, ... in order; in row k the cell
\* at 0-based column c, unless it is None, gets the reference col_name(c)
\* followed by k, where col_name(c) is the bijective base-26 name of c + 1
\* (0 -> A, 25 -> Z, 26 -> AA); a None cell emits no element and shifts no
\* later letter; an int or a float is a plain <v> value, everything else (a
\* bool included) an inline string; col_letter of the reference is col_name(c).
C16_CellReferences ==
    (probe # <<>> /\ probe.stage = "sheet_xml") =>
        /\ Len(probe.output) = Len(probe.input)
        /\ col_name(0) = <<"A">> /\ col_name(25) = <<"Z">> /\ col_name(26) = <<"A", "A">>
        /\ \A rk \in 1..Len(probe.input) :
              LET row == probe.input[rk]
                  cols == Present(row, 0)
                  out == probe.output[rk]
              IN  /\ DigitValue(out.r) = rk
                  /\ Len(out.cells) = Len(cols)
                  /\ \A j \in 1..Len(cols) :
                        LET el == out.cells[j]
                            val == row[cols[j] + 1]
                        IN  /\ el.ref = col_name(cols[j]) \o out.r
                            /\ col_letter(el.ref) = col_name(cols[j])
                            /\ LetterValue(col_letter(el.ref)) = cols[j] + 1
                            /\ DigitValue(RefDigits(el.ref)) = rk
                            /\ IF val.t \in {"f", "i"}
                               THEN el.t = "" /\ el.v # None /\ el.is = None
                               ELSE el.t = "inlineStr" /\ el.v = None /\ el.is # None

\* a second row with a None cell before column 26 was written: the cell of
\* column 26 is AA2, a bool went out as an inline string and a number as <v>
C16_Witness ==
    /\ probe # <<>> /\ probe.stage = "sheet_xml"
    /\ Len(probe.input) >= 2
    /\ \E c \in 0..25 : c < Len(probe.input[2]) /\ probe.input[2][c + 1] = CNone
    /\ \E j \in 1..Len(probe.output[2].cells) :
          probe.output[2].cells[j].ref = <<"A", "A", "2">>
    /\ \E j \in 1..Len(probe.output[2].cells) :
          /\ probe.output[2].cells[j].is = Some(Some(<<"T", "r", "u", "e">>))
          /\ probe.output[2].cells[j].t = "inlineStr"
    /\ \E j \in 1..Len(probe.output[2].cells) : probe.output[2].cells[j].v = Some(<<"4", "5">>)

\* C15: in the archive write_xlsx produces for n sheets, xl/workbook.xml
\* lists the sheets in input order, the i-th with sheetId i and relationship
\* id rId i; rId i names exactly one relationship, whose target is
\* worksheets/sheet i.xml, and that part holds the i-th sheet's rows; the
\* archive has n sheet parts, [Content_Types].xml has one override per sheet
\* part, and the id of the styles relationship is no sheet's relationship id.
C15_ArchiveLayout ==
    (probe # <<>> /\ probe.stage = "written") =>
        LET z == probe.archive
            n == Len(probe.input)
            wb == z[WorkbookXml]
            rels == z[WorkbookRels]
            ct == z[ContentTypesXml]
        IN  /\ Len(wb) = n
            /\ Cardinality({path \in DOMAIN z : Len(path) > 1 /\ path[2] = "worksheets/sheet"}) = n
            /\ \A i \in 1..n :
                  LET target == <<"worksheets/sheet">> \o IntDigits(i) \o <<".xml">>
                  IN  /\ wb[i].name = xml_escape(probe.input[i][1])
                      /\ DigitValue(wb[i].sheetId) = i
                      /\ Head(wb[i].rid) = "rId" /\ DigitValue(Tail(wb[i].rid)) = i
                      /\ Cardinality({j \in DOMAIN rels : rels[j].Id = wb[i].rid}) = 1
                      /\ \A j \in DOMAIN rels :
                            rels[j].Id = wb[i].rid =>
                                /\ rels[j].Target = target
                                /\ <<"xl/">> \o target \in DOMAIN z
                                /\ z[<<"xl/">> \o target] = write_sheet_xml(probe.input[i][2])
                      /\ Cardinality({j \in DOMAIN ct : ct[j] = <<"/", "xl/">> \o target}) = 1
            /\ Cardinality({j \in DOMAIN rels : rels[j].Type = "styles"}) = 1
            /\ \A j \in DOMAIN rels :
                  rels[j].Type = "styles" => \A i \in 1..n : rels[j].Id # wb[i].rid

\* two different sheets were written, the second with rows
C15_Witness ==
    /\ probe # <<>> /\ probe.stage = "written"
    /\ Len(probe.input) = 2
    /\ probe.input[1] # probe.input[2]
    /\ probe.input[2][2] # <<>>
    /\ Len(probe.archive[WorkbookRels]) = 3

\* both required parts are in the archive
HasRequiredParts(z) == WorkbookXml \in DOMAIN z /\ WorkbookRels \in DOMAIN z

\* C12: when xl/workbook.xml or xl/_rels/workbook.xml.rels is missing,
\* read_input_clients raises an error and returns no clients, and the error
\* is of a kind that no archive holding both parts makes it raise.
C12_MalformedWorkbook ==
    (probe # <<>> /\ probe.stage = "read" /\ ~HasRequiredParts(probe.archive)) =>
        /\ probe.output.err # ""
        /\ probe.output.clients = <<>>
        /\ \A y \in InputArchives :
              HasRequiredParts(y) => ReadXlsx(y).err # probe.output.err

\* the archive has no defect other than missing optional parts: the required
\* parts are there, every sheet names a relationship whose part is there, and
\* every part is well-formed XML with integer row numbers
Sound(z) ==
    /\ HasRequiredParts(z)
    /\ \A i \in 1..Len(z[WorkbookXml]) :
          LET target == RelTarget(z[WorkbookRels], z[WorkbookXml][i].rid)
          IN  /\ XmlDecode(z[WorkbookXml][i].name, TRUE) # None
              /\ target # None
              /\ <<"xl/">> \o target[1] \in DOMAIN z
              /\ SheetParses(z[<<"xl/">> \o target[1]])
              /\ \A j \in 1..Len(z[<<"xl/">> \o target[1]]) :
                    ParseInt(z[<<"xl/">> \o target[1]][j].r) # None

\* the part of the i-th sheet of workbook.xml
PartOf(z, i) == z[<<"xl/">> \o RelTarget(z[WorkbookRels], z[WorkbookXml][i].rid)[1]]

\* the rows of a part that carry a recognized label in column A and a value
\* in column B, neither through the shared strings, the label of no other row
PlainRows(doc) ==
    {j \in 1..Len(doc) :
        /\ Len(doc[j].cells) = 2
        /\ doc[j].cells[1].t # "s" /\ doc[j].cells[2].t # "s"
        /\ col_letter(doc[j].cells[1].ref) = <<"A">>
        /\ col_letter(doc[j].cells[2].ref) = <<"B">>
        /\ doc[j].cells[1].v = None /\ doc[j].cells[1].is # None
        /\ doc[j].cells[2].v # None
        /\ KeyOfLabel(XmlDecode(doc[j].cells[1].is[1][1], FALSE)[1]) # ""
        /\ \A j2 \in 1..Len(doc) :
              (j2 # j /\ doc[j2].cells # <<>>) =>
                  KeyOfLabel(parse_cell_value(doc[j2].cells[1], <<>>))
                      # KeyOfLabel(XmlDecode(doc[j].cells[1].is[1][1], FALSE)[1])}

\* C13: reading an archive without xl/sharedStrings.xml, and with no other
\* defect, raises nothing and returns one client per sheet; a row whose label
\* is an inline string and whose value is a plain <v> is read as that label
\* and that value; a sheet without rows gives a client with no test, no age
\* and the sheet name as its name.
C13_NoSharedStrings ==
    (probe # <<>> /\ probe.stage = "read" /\ SharedStringsXml \notin DOMAIN probe.archive
        /\ Sound(probe.archive)) =>
        LET z == probe.archive
            out == probe.output
        IN  /\ out.err = ""
            /\ Len(out.clients) = Len(z[WorkbookXml])
            /\ \A i \in 1..Len(z[WorkbookXml]) :
                  /\ \A j \in PlainRows(PartOf(z, i)) :
                        LET c == PartOf(z, i)[j].cells
                            key == KeyOfLabel(XmlDecode(c[1].is[1][1], FALSE)[1])
                        IN  /\ key \in DOMAIN out.clients[i].data
                            /\ out.clients[i].data[key] = ParseNum(XmlDecode(c[2].v[1], FALSE)[1])
                  /\ PartOf(z, i) = <<>> =>
                        /\ out.clients[i].data = <<>>
                        /\ out.clients[i].age = None
                        /\ out.clients[i].name = XmlDecode(z[WorkbookXml][i].name, TRUE)[1]
                        /\ out.clients[i].sheet_name = out.clients[i].name

\* an archive without shared strings was read: one sheet gave a test value
\* from an inline label and a plain value, another had no rows
C13_Witness ==
    /\ probe # <<>> /\ probe.stage = "read"
    /\ SharedStringsXml \notin DOMAIN probe.archive
    /\ Sound(probe.archive)
    /\ \E i \in 1..Len(probe.archive[WorkbookXml]) :
          /\ PlainRows(PartOf(probe.archive, i)) # {}
          /\ probe.output.clients[i].data # <<>>
    /\ \E i \in 1..Len(probe.archive[WorkbookXml]) :
          /\ PartOf(probe.archive, i) = <<>>
          /\ probe.output.clients[i].data = <<>>

\* the label of a written row: the text of its first cell, '' without one
WrittenLabel(row) == IF row # <<>> /\ row[1].t = "s" THEN row[1].s ELSE <<>>

\* the labels of written rows, the empty label left out
WrittenLabels(rows) == {WrittenLabel(rows[j]) : j \in 1..Len(rows)} \ {<<>>}

\* the second cell of the last written row with that label, None without one
WrittenValue(rows, label) ==
    LET last == CHOOSE j \in 1..Len(rows) :
                    /\ WrittenLabel(rows[j]) = label
                    /\ \A j2 \in (j + 1)..Len(rows) : WrittenLabel(rows[j2]) # label
    IN  IF Len(rows[last]) >= 2 THEN rows[last][2] ELSE CNone

\* the value read is the value written: the same number, the same text, ''
\* for a missing cell
SameValue(written, read) ==
    CASE written.t = "f" -> ParseNum(read) = Some(NumOfFixed(written.n))
      [] written.t = "i" -> ParseNum(read) = Some(NumOfInt(written.n))
      [] written.t = "s" -> read = written.s
      [] OTHER -> read = <<>>

\* the sheets written are texts and numbers only
OnlyTextAndNumbers(sheetList) ==
    \A i \in 1..Len(sheetList) : \A j \in 1..Len(sheetList[i][2]) :
        \A c \in 1..Len(sheetList[i][2][j]) : sheetList[i][2][j][c].t \in {"f", "i", "s", "none"}

\* C14: reading back what write_xlsx wrote for sheets of texts and numbers
\* raises nothing and returns the sheets in the order written, each with the
\* name written and with a label-to-value map that has exactly the labels
\* written in column A, each with the value written last in column B.
C14_RoundTrip ==
    (probe # <<>> /\ probe.stage = "read" /\ probe.origin = "written"
        /\ OnlyTextAndNumbers(probe.input)) =>
        /\ probe.output.err = ""
        /\ Len(probe.output.clients) = Len(probe.input)
        /\ \A i \in 1..Len(probe.input) :
              LET rows == probe.input[i][2]
                  ltv == LabelToValue(RowMap(PartOf(probe.archive, i),
                                             read_shared_strings(probe.archive), 1, <<>>), 1, <<>>)
              IN  /\ probe.output.clients[i].sheet_name = probe.input[i][1]
                  /\ {ltv[j].label : j \in 1..Len(ltv)} = WrittenLabels(rows)
                  /\ \A j \in 1..Len(ltv) :
                        ltv[j].label \in WrittenLabels(rows) =>
                            SameValue(WrittenValue(rows, ltv[j].label), ltv[j].value)

\* C18: when main is done, each of the two workbooks has one sheet per input
\* client, in client order; the i-th sheet is named by the first 31 characters
\* of {name}_{age} with the characters [ ] : * ? / \ replaced by _; its first
\* row is Test, Baseline, Year 5 Mean, Year 10 Mean, and after it comes one
\* row per test of tests_order, in that order, whose first cell is the test
\* and whose second is the client's baseline.
C18_WorkbookLayout ==
    (pc = "done" /\ err = "") =>
        \A s \in {"decline", "improvement"} :
            /\ files[s] # None
            /\ Len(files[s][1]) = Len(workbook)
            /\ \A i \in 1..Len(workbook) :
                  LET sheet == files[s][1][i]
                      client == ReadSheet(workbook[i])
                      raw == Chars(client.name) \o <<"_">>
                                \o (IF client.age = None THEN <<>> ELSE IntDigits(client.age[1]))
                  IN  /\ sheet.name = Expected31(raw)
                      /\ Len(sheet.rows) = 1 + Len(cfg.tests_order)
                      /\ sheet.rows[1] = <<Text("Test"), Text("Baseline"), Text("Year 5 Mean"),
                                           Text("Year 10 Mean")>>
                      /\ \A j \in 1..Len(cfg.tests_order) :
                            /\ Len(sheet.rows[j + 1]) = 4
                            /\ sheet.rows[j + 1][1] = Text(cfg.tests_order[j])
                            /\ LET t == cfg.tests_order[j]
                               IN  IF t \in DOMAIN client.data /\ client.data[t] # None
                                   THEN sheet.rows[j + 1][2] = Num(client.data[t][1])
                                   ELSE sheet.rows[j + 1][2].t # "n"

\* both workbooks were written for two different clients, one of them with a
\* name that was cut to 31 characters and had characters replaced, the other
\* without an age
C18_Witness ==
    /\ pc = "done" /\ err = ""
    /\ Len(workbook) = 2
    /\ files["improvement"] # None
    /\ \E i \in 1..2 :
          /\ Len(files["improvement"][1][i].name) = 31
          /\ files["improvement"][1][i].name # SubSeq(RawSheetName(clients[i]), 1, 31)
    /\ \E i \in 1..2 : clients[i].age = None /\ files["decline"][1][i].name = <<"D", "i", "_">>

\* the larger of tolerance_abs and tolerance_rel * |baseline|
ToleranceFor(sanity, baseline) ==
    LET rel == Mul(sanity.tolerance_rel, IF baseline < 0 THEN -baseline ELSE baseline)
    IN  IF sanity.tolerance_abs >= rel THEN sanity.tolerance_abs ELSE rel

\* the mean of a test with a baseline and a direction moves against the
\* decline direction by more than the tolerance
BeyondTolerance(config, data, means, test) ==
    /\ test \in DOMAIN data /\ data[test] # None
    /\ test \in config.higher_is_better \cup config.lower_is_better
    /\ test \in DOMAIN means
    /\ LET delta == means[test] - data[test][1]
           tol == ToleranceFor(config.sanity_check, data[test][1])
       IN  IF test \in config.higher_is_better THEN delta > tol ELSE delta < -tol

\* C19: with the sanity check enabled, run_decline_sanity_checks flags a test
\* at a horizon exactly when the client has a baseline for it, the test has a
\* direction and delta = mean - baseline is beyond tol = max(tolerance_abs,
\* tolerance_rel * |baseline|): delta > tol when higher is better, delta < -tol
\* when lower is better; delta = tol is not flagged; each horizon is judged
\* on its own mean, and nothing is flagged twice.
C19_SanityFlags ==
    (probe # <<>> /\ probe.stage = "checked" /\ cfg.sanity_check.enabled) =>
        /\ \A i \in 1..Len(cfg.tests_order) :
              LET test == cfg.tests_order[i]
              IN  /\ (\E m \in 1..Len(probe.output) :
                          probe.output[m].test = test /\ probe.output[m].year = 5)
                     <=> BeyondTolerance(cfg, probe.client.data, probe.mean5, test)
                  /\ (\E m \in 1..Len(probe.output) :
                          probe.output[m].test = test /\ probe.output[m].year = 10)
                     <=> BeyondTolerance(cfg, probe.client.data, probe.mean10, test)
        /\ \A m1, m2 \in 1..Len(probe.output) :
              (probe.output[m1].test = probe.output[m2].test
               /\ probe.output[m1].year = probe.output[m2].year) => m1 = m2

\* a higher-is-better test whose year-5 delta is exactly the positive
\* tolerance was not flagged at year 5 and was flagged at year 10
C19_Witness ==
    /\ probe # <<>> /\ probe.stage = "checked" /\ cfg.sanity_check.enabled
    /\ "VO2 max" \in cfg.higher_is_better
    /\ "VO2 max" \in DOMAIN probe.client.data /\ probe.client.data["VO2 max"] # None
    /\ "VO2 max" \in DOMAIN probe.mean5
    /\ ToleranceFor(cfg.sanity_check, probe.client.data["VO2 max"][1]) > cfg.sanity_check.tolerance_abs
    /\ probe.mean5["VO2 max"] - probe.client.data["VO2 max"][1]
          = ToleranceFor(cfg.sanity_check, probe.client.data["VO2 max"][1])
    /\ \A m \in 1..Len(probe.output) :
          ~(probe.output[m].test = "VO2 max" /\ probe.output[m].year = 5)
    /\ \E m \in 1..Len(probe.output) :
          probe.output[m].test = "VO2 max" /\ probe.output[m].year = 10

\* main is done with the sanity check enabled
CheckedRun == pc = "done" /\ err = "" /\ cfg.sanity_check.enabled

\* the row of the j-th test on the i-th sheet of the workbook of scenario s
OutRow(s, i, j) == files[s][1][i].rows[j + 1]

\* in the workbook of scenario s, the mean of the j-th test of client i at
\* horizon y (column 3 or 4) differs from the baseline by more than the
\* tolerance: sign 1 for above, -1 for below
MovedBeyond(s, i, j, y, sign) ==
    LET row == OutRow(s, i, j)
        col == IF y = 5 THEN 3 ELSE 4
    IN  /\ row[2].t = "n" /\ row[col].t = "n"
        /\ sign * (row[col].n - row[2].n) > ToleranceFor(cfg.sanity_check, row[2].n)

\* the direction that contradicts scenario s for test t: 1 for a rise, -1
\* for a fall, 0 for a test without a direction
Contradicts(s, t) ==
    LET up == IF t \in cfg.higher_is_better THEN 1
              ELSE IF t \in cfg.lower_is_better THEN -1 ELSE 0
    IN  IF s = "decline" THEN up ELSE -up

\* a line was printed for client i, the j-th test and horizon y with the mean
\* the workbook of scenario s holds
Flagged(s, i, j, y) ==
    \E m \in 1..Len(printed) :
        /\ printed[m].name = clients[i].name
        /\ printed[m].test = cfg.tests_order[j]
        /\ printed[m].year = y
        /\ printed[m].mean = OutRow(s, i, j)[IF y = 5 THEN 3 ELSE 4].n

CheckIsFrame ==
    pc = "append" =>
        /\ UNCHANGED <<cfg, clients, mean5, mean10>>
        /\ pc' = "client"
        /\ err' = ""

\* C21: the sanity checker is purely diagnostic: the step of main that calls
\* it leaves the client, mean5, mean10 and the config unchanged and never
\* aborts the run, and a seeded run writes the same workbooks whether the
\* check is enabled or disabled.
C21_PurelyDiagnostic ==
    /\ [][CheckIsFrame]_vars
    /\ [](run = 2 /\ pc \in {"done", "aborted"} =>
            /\ pc = "done"
            /\ firstFiles.err = ""
            /\ files = firstFiles.files)

\* the second run is done with the check enabled and has printed a line,
\* after a first run with the check disabled
C21_Witness ==
    /\ run = 2 /\ pc = "done"
    /\ cfg.sanity_check.enabled
    /\ printed # <<>>
    /\ files["decline"] # None /\ files["decline"][1] # <<>>

\* label.strip().lower()
Normal(label) == [i \in 1..Len(Strip(label)) |-> Lower(Strip(label)[i])]

\* s starts with p
StartsWith(s, p) == Len(s) >= Len(p) /\ SubSeq(s, 1, Len(p)) = p

\* the canonical tests of the recognized prefixes a label starts with
RecognizedAs(label) ==
    {LABEL_CHAIN[e][2] : e \in {f \in 1..Len(LABEL_CHAIN) :
                                   StartsWith(Normal(label), Chars(LABEL_CHAIN[f][1]))}} \ {""}

\* the number a written cell is read as, None when it is none
BaselineOf(cell) ==
    CASE cell.t = "f" -> Some(NumOfFixed(cell.n))
      [] cell.t = "i" -> Some(NumOfInt(cell.n))
      [] cell.t = "s" -> ParseNum(cell.s)
      [] OTHER -> None

\* a sheet of labels was written and read back
LabelsRead == probe # <<>> /\ probe.stage = "read" /\ probe.origin = "labels"

\* C22: a label of column A adds a baseline to the client's data if and only
\* if, trimmed and in lower case, it starts with a recognized test prefix, and
\* the baseline is stored under that prefix's canonical test; every other
\* label (unrecognized text, fasting glucose, Age, Name) adds no entry, and
\* Age and Name give the client's age and name.
C22_LabelsRecognized ==
    LabelsRead =>
        LET rows == probe.input[1][2]
            labels == WrittenLabels(rows)
            client == probe.output.clients[1]
            name_val == IF Chars("Name") \in labels
                        THEN Strip(WrittenValue(rows, Chars("Name")).s) ELSE <<>>
        IN  /\ probe.output.err = ""
            /\ DOMAIN client.data = UNION {RecognizedAs(l) : l \in labels}
            /\ \A key \in DOMAIN client.data :
                  \E l \in labels :
                      /\ key \in RecognizedAs(l)
                      /\ client.data[key] = BaselineOf(WrittenValue(rows, l))
            /\ client.age = IF Chars("Age") \in labels
                            THEN BaselineOf(WrittenValue(rows, Chars("Age"))) ELSE None
            /\ client.name = IF name_val # <<>> THEN name_val ELSE probe.input[1][1]

\* a sheet was read whose label with blanks around it gave a baseline under
\* the canonical test while the fasting glucose label gave none
C22_Witness ==
    /\ LabelsRead
    /\ WrittenLabels(probe.input[1][2]) = {Chars("  homa-ir "), Chars("Fasting Glucose")}
    /\ DOMAIN probe.output.clients[1].data = {"HOMA-IR"}
    /\ probe.output.clients[1].data["HOMA-IR"] = Some(NumOfFixed(Pct(80)))

\* simulate_client has completed a draw
DrawDone == draw # <<>> /\ err = ""

\* C23: in every draw a rate is sampled for every test of tests_order; the
\* shock of a test in correlations.tests is its entry of the mixed vector, the
\* shock of any other test is a fresh standard normal; every rate is >= 0,
\* and a lognormal rate is positive.
C23_RatesSampled ==
    DrawDone =>
        \A t \in TestSet(cfg) :
            LET i == IndexOf(cfg.correlations.tests, t)
                mu == cfg.base_rate_per_decade[t]
                cv == cfg.rate_uncertainty_cv[t]
            IN  /\ t \in DOMAIN draw.rate
                /\ draw.rate[t] >= 0
                /\ t \in cfg.rate_lognormal => draw.rate[t] > 0
                /\ i # 0 => /\ draw.shock[t].z = draw.z_corr[i]
                            /\ draw.shock[t].after = draw.shock[t].before
                /\ i = 0 => /\ draw.shock[t].z = Gauss(draw.shock[t].before)
                            /\ draw.shock[t].after = RngNext(draw.shock[t].before)
                /\ t \notin cfg.rate_lognormal /\ mu + Mul(Mul(Abs(mu), cv), draw.shock[t].z) >= 0
                      => draw.rate[t] = mu + Mul(Mul(Abs(mu), cv), draw.shock[t].z)

\* a draw in which a correlated test used a non-zero entry of the mixed
\* vector, another test a fresh shock, and an additive rate was clamped at 0
C23_Witness ==
    /\ DrawDone
    /\ \E t \in TestSet(cfg) :
          /\ IndexOf(cfg.correlations.tests, t) # 0
          /\ draw.shock[t].z # 0
    /\ \E t \in TestSet(cfg) :
          /\ IndexOf(cfg.correlations.tests, t) = 0
          /\ draw.shock[t].after # draw.shock[t].before
    /\ \E t \in TestSet(cfg) :
          /\ cfg.base_rate_per_decade[t] + Mul(Mul(cfg.base_rate_per_decade[t],
                                                  cfg.rate_uncertainty_cv[t]), draw.shock[t].z) < 0
          /\ draw.rate[t] = 0

\* C24: apply_decline splits the horizon into years1 >= 0 and years2 >= 0
\* with years1 + years2 = years: all of it at the base rate without an
\* acceleration age, all of it at the post rate from the acceleration age on,
\* else years1 = min(years, accel_age - age_start); the base rate is applied
\* to years1, then the post rate (the base rate without one) to years2; and
\* years <= 0 returns the value unchanged.
C24_DeclineSplit ==
    (probe # <<>> /\ probe.stage = "declined") =>
        LET in == probe.input
            y1 == probe.years1
            y2 == probe.years2
            second == IF in.rate_post = None THEN in.rate_base ELSE in.rate_post[1]
        IN  /\ in.years <= 0 => probe.output = in.value
            /\ in.years > 0 =>
                  /\ y1 >= 0 /\ y2 >= 0 /\ y1 + y2 = in.years
                  /\ in.accel_age = None => y1 = in.years
                  /\ in.accel_age # None /\ in.age_start >= in.accel_age[1] => y2 = in.years
                  /\ in.accel_age # None /\ in.age_start < in.accel_age[1]
                        => y1 = Min(in.years, in.accel_age[1] - in.age_start)
                  /\ probe.output =
                        apply_segment(apply_segment(in.value, in.rate_base, y1,
                                                    in.higher_is_better, in.use_absolute),
                                      second, y2, in.higher_is_better, in.use_absolute)

\* a horizon that crosses the acceleration age was split in two segments, the
\* second at the post rate
C24_Witness ==
    /\ probe # <<>> /\ probe.stage = "declined"
    /\ probe.years1 > 0 /\ probe.years2 > 0
    /\ probe.input.rate_post # None
    /\ probe.output # probe.input.value
    /\ probe.output # apply_segment(probe.input.value, probe.input.rate_base, probe.input.years,
                                    probe.input.higher_is_better, probe.input.use_absolute)

\* draw holds the latest draw of the client and scenario being simulated
DrawOfClient == pc \in {"draw", "append"} /\ k >= 1 /\ err = "" /\ draw # <<>>

\* what apply_decline returns for a step of the draw, from the value, the
\* start age and the years recorded for it
DeclinedFrom(t, s, value) ==
    apply_decline(value, s.age_start, s.years, draw.rate[t], draw.rate_post[t],
                  Get(cfg.accelerate_from_age, t), t \in cfg.higher_is_better,
                  t \in AbsoluteDecline(cfg))

\* C25: in the improvement scenario the improvement is applied to the
\* de-noised baseline first and decline follows for years - 1 years from
\* age + 1; in the decline scenario decline runs for the whole horizon from the
\* client's age; a null age counts as 0 in both.
C25_RemainingHorizon ==
    DrawOfClient =>
        \A t \in TestSet(cfg), y \in {5, 10} :
            LET s == draw.steps[<<y, t>>]
                age == IF clients[ci].age = None THEN 0 ELSE clients[ci].age[1]
            IN  /\ s.start = draw.true0[t]
                /\ scenario = "improvement" =>
                      /\ s.improved = Improve(cfg, t, s.start, s.imp)
                      /\ s.age_start = age + 1
                      /\ s.years = y - 1
                /\ scenario = "decline" =>
                      /\ s.improved = s.start
                      /\ s.age_start = age
                      /\ s.years = y
                /\ s.declined = DeclinedFrom(t, s, s.improved)

\* an improvement draw of a client without an age: a test was improved and
\* then declined for 4 and 9 years from age 1
C25_Witness ==
    /\ DrawOfClient
    /\ scenario = "improvement"
    /\ clients[ci].age = None
    /\ \E t \in TestSet(cfg) :
          /\ draw.steps[<<5, t>>].improved # draw.steps[<<5, t>>].start
          /\ draw.steps[<<5, t>>].years = 4 /\ draw.steps[<<10, t>>].years = 9
          /\ draw.steps[<<5, t>>].age_start = 1
          /\ draw.steps[<<10, t>>].declined # draw.steps[<<10, t>>].improved

\* the practice effect is due for test t at horizon y
PracticeDue(t, y) ==
    /\ cfg.practice_effect.enabled
    /\ y = cfg.practice_effect.year
    /\ t \in cfg.practice_effect.tests

\* C26: the practice bump is applied to a test at a horizon if and only if
\* the effect is enabled, the horizon is the practice year and the test is in
\* the configured set; it is applied once, after decline and before re-noise,
\* in the decline and in the improvement scenario alike, additive for an
\* absolute-decline test and multiplicative for a relative one; no other
\* horizon or test is changed.
C26_PracticeBump ==
    DrawOfClient =>
        \A t \in TestSet(cfg), y \in {5, 10} :
            LET s == draw.steps[<<y, t>>]
                p == cfg.practice_effect.percent
            IN  /\ s.declined = DeclinedFrom(t, s, s.improved)
                /\ PracticeDue(t, y) /\ t \in AbsoluteDecline(cfg) => s.bumped = s.declined + p
                /\ PracticeDue(t, y) /\ t \notin AbsoluteDecline(cfg) =>
                      s.bumped = Mul(s.declined, IF s.declined >= 0 THEN SCALE + p ELSE SCALE - p)
                /\ ~PracticeDue(t, y) => s.bumped = s.declined
                /\ s.obs = apply_measurement_noise(t, s.bumped, cfg.measurement_cv,
                                                   cfg.measurement_lognormal, AllowNegative(cfg),
                                                   s.drawn).v

\* an improvement draw with the practice effect at year 10: the absolute test
\* and the relative test were bumped at year 10 and left alone at year 5
C26_Witness ==
    /\ DrawOfClient
    /\ scenario = "improvement"
    /\ cfg.practice_effect.enabled /\ cfg.practice_effect.year = 10
    /\ \E t \in AbsoluteDecline(cfg) \cap cfg.practice_effect.tests :
          /\ draw.steps[<<10, t>>].bumped = draw.steps[<<10, t>>].declined + Pct(10)
          /\ draw.steps[<<5, t>>].bumped = draw.steps[<<5, t>>].declined
    /\ \E t \in cfg.practice_effect.tests \ AbsoluteDecline(cfg) :
          /\ draw.steps[<<10, t>>].bumped > draw.steps[<<10, t>>].declined
          /\ draw.steps[<<5, t>>].bumped = draw.steps[<<5, t>>].declined


\* the de-noised baseline, the observations and the means of a test that
\* does not allow negatives are >= 0
NeverNegative(t) ==
    /\ DrawOfClient =>
          /\ draw.true0[t] >= 0
          /\ \A y \in {5, 10} : draw.steps[<<y, t>>].obs >= 0
          /\ sums5[t] >= 0 /\ sums10[t] >= 0
    /\ pc = "append" => mean5[t] >= 0 /\ mean10[t] >= 0

\* a negative value of a test that allows negatives is not reset to 0 by
\* de-noising or by re-noising
NegativeKept(t) ==
    DrawOfClient =>
        /\ clients[ci].data[t][1] < 0 => draw.true0[t] # 0
        /\ \A y \in {5, 10} : draw.steps[<<y, t>>].bumped < 0 => draw.steps[<<y, t>>].obs # 0

\* C27: for a test outside allow_negative_tests every de-noised baseline,
\* every simulated observation and every Year 5 and Year 10 mean is >= 0; for
\* a test in allow_negative_tests a negative true value is not reset to 0 by
\* de-noising or re-noising.
C27_ClampUnlessAllowed ==
    \A t \in TestSet(cfg) :
        /\ t \notin AllowNegative(cfg) => NeverNegative(t)
        /\ t \in AllowNegative(cfg) => NegativeKept(t)

\* the first half of C27 alone
C27_NonNegative ==
    \A t \in TestSet(cfg) \ AllowNegative(cfg) : NeverNegative(t)

\* the second half of C27 for the tests with additive noise
C27_AdditiveKept ==
    \A t \in (TestSet(cfg) \cap AllowNegative(cfg)) \ cfg.measurement_lognormal : NegativeKept(t)


\* a call of simulate_client starts with empty accumulators
AccumulatorsStart ==
    pc = "client" /\ pc' = "draw" =>
        k' = 0 /\ \A t \in TestSet(cfg) : sums5'[t] = 0 /\ sums10'[t] = 0

\* a completed draw adds one observation per test to each accumulator
AccumulatorsGrow ==
    pc = "draw" /\ k' = k + 1 =>
        \A t \in TestSet(cfg) :
            /\ sums5'[t] = sums5[t] + draw'.steps[<<5, t>>].obs
            /\ sums10'[t] = sums10[t] + draw'.steps[<<10, t>>].obs

\* after the last draw the means are returned: the accumulators over n_sim
MeansReturned ==
    pc = "draw" /\ k >= cfg.n_sim /\ pc' # pc =>
        /\ pc' = "append"
        /\ \A t \in TestSet(cfg) :
              /\ mean5'[t] = Quot(sums5[t], cfg.n_sim)
              /\ mean10'[t] = Quot(sums10[t], cfg.n_sim)

\* C28: the accumulators of a call of simulate_client start at 0, each
\* completed draw adds exactly one observation per test and horizon, and the
\* call returns each accumulator divided by n_sim, for every n_sim the config
\* can supply.
C28_Accumulators == [][AccumulatorsStart /\ AccumulatorsGrow /\ MeansReturned]_vars

\* C28 without the returned means
C28_SumsOnly == [][AccumulatorsStart /\ AccumulatorsGrow]_vars

\* C28 for the configurations whose n_sim is not 0
C28_NonZero == [][cfg.n_sim # 0 => AccumulatorsStart /\ AccumulatorsGrow /\ MeansReturned]_vars


\* in the steps of an improvement draw the improvement and the decline that
\* follows it move the value of test t in opposite ways
OppositeWays(t) ==
    DrawOfClient /\ scenario = "improvement" =>
        \A y \in {5, 10} :
            LET s == draw.steps[<<y, t>>]
            IN  /\ s.improved > s.start => s.declined <= s.improved
                /\ s.improved < s.start => s.declined >= s.improved

\* C29: for every test of tests_order, listed in higher_is_better, in
\* lower_is_better or in neither list, the instantaneous improvement moves the
\* value the opposite way to the way apply_decline moves it.
C29_DirectionsAgree == \A t \in TestSet(cfg) : OppositeWays(t)

\* C29 for the tests listed in exactly one of the two lists
C29_ListedAgree ==
    \A t \in TestSet(cfg) :
        (t \in cfg.higher_is_better) # (t \in cfg.lower_is_better) => OppositeWays(t)


\* the generator is handed from one record of a sequence of draws to the next
Chained(recs) == \A i \in 1..(Len(recs) - 1) : recs[i + 1].before = recs[i].after

\* the records of the latest draw in the order the code draws them: the rates
\* of every test, the de-noised baselines, the steps of year 5, those of year 10
DrawOrder ==
    LET T == cfg.tests_order
    IN  [i \in 1..Len(T) |-> [before |-> draw.shock[T[i]].before, after |-> draw.shock[T[i]].after]]
        \o [i \in 1..Len(T) |-> draw.denoise[T[i]]]
        \o [i \in 1..Len(T) |-> [before |-> draw.steps[<<5, T[i]>>].before,
                                 after |-> draw.steps[<<5, T[i]>>].after]]
        \o [i \in 1..Len(T) |-> [before |-> draw.steps[<<10, T[i]>>].before,
                                 after |-> draw.steps[<<10, T[i]>>].after]]

\* C30: within one draw the year-5 and the year-10 trajectory of a test start
\* from the same de-noised baseline and use the same sampled base and post
\* rate, the rate being sampled and the baseline de-noised once per test before
\* the loop over horizons; within the horizons only the improvement fraction
\* and the re-noise take values from the generator.
C30_SharedBaselineAndRates ==
    DrawOfClient =>
        /\ Chained(DrawOrder)
        /\ rng = DrawOrder[Len(DrawOrder)].after
        /\ \A t \in TestSet(cfg) :
              /\ draw.true0[t] = infer_true_from_observed(t, clients[ci].data[t][1],
                                     cfg.measurement_cv, cfg.measurement_lognormal,
                                     AllowNegative(cfg), draw.denoise[t].before).v
              /\ \A y \in {5, 10} :
                    LET s == draw.steps[<<y, t>>]
                    IN  /\ s.start = draw.true0[t]
                        /\ s.rate = draw.rate[t]
                        /\ s.rate_post = draw.rate_post[t]
                        /\ s.drawn = IF scenario = "improvement"
                                     THEN sample_improvement_fraction(t, clients[ci].age,
                                              cfg.improvement, s.before).rng
                                     ELSE s.before
                        /\ s.after = apply_measurement_noise(t, s.bumped, cfg.measurement_cv,
                                         cfg.measurement_lognormal, AllowNegative(cfg),
                                         s.drawn).rng

\* an improvement draw in which a test got another improvement fraction and
\* another noise at year 10 than at year 5, from one baseline and one rate
C30_Witness ==
    /\ DrawOfClient
    /\ scenario = "improvement"
    /\ \E t \in TestSet(cfg) :
          LET s5 == draw.steps[<<5, t>>]
              s10 == draw.steps[<<10, t>>]
          IN  /\ s5.start = s10.start /\ s5.rate = s10.rate /\ s5.rate_post = s10.rate_post
              /\ s5.imp # s10.imp
              /\ s5.drawn # s10.drawn /\ s5.after # s5.drawn /\ s10.after # s10.drawn
              /\ s5.obs # s5.bumped /\ s10.obs # s10.bumped

====
